---------------------------- MODULE Spec2Model ----------------------------
(***************************************************************************)
(* The decimal-format pattern engine of i18n/number_patternstring.cpp:     *)
(* the recursive-descent pattern parser (ParsedPatternInfo), the           *)
(* translation of a parsed pattern into DecimalFormatProperties            *)
(* (PatternParser::patternInfoToProperties), the serializer                *)
(* (PatternStringUtils::propertiesToPatternString) and the localized       *)
(* symbol converter (PatternStringUtils::convertLocalized), and the        *)
(* rendering of an affix for a sign                                        *)
(* (PatternStringUtils::patternInfoToStringBuilder).                       *)
(*                                                                         *)
(* Text is a sequence of one-character strings; every character of the     *)
(* model is in the Basic Multilingual Plane, so U16_LENGTH of a character  *)
(* is 1.  A UnicodeString that is "bogus" is the value Bogus.              *)
(***************************************************************************)
EXTENDS Integers, Sequences, FiniteSets, TLC

VARIABLES
    pattern,         \* the text handed to parseToExistingPropertiesImpl
    ignoreRounding,  \* the IgnoreRounding policy of the call
    properties,      \* the DecimalFormatProperties being written
    info,            \* the ParsedPatternInfo of the running parse
    status,          \* the UErrorCode of the call
    pc,              \* the position of the call
    stage,           \* the position inside consumeSubpattern (1..9)
    ret,             \* the caller consumeLiteral returns to
    zeroCounter,     \* the local of consumeFractionFormat
    round,           \* which parse of the pipeline is running (1, 2)
    trip,            \* the properties and the text of the finished rounds
    conv,            \* the running call of convertLocalized
    rendered         \* the last call of patternInfoToStringBuilder and its output

parserVars == <<pattern, ignoreRounding, properties, info, status, pc, stage, ret,
                zeroCounter, round, trip>>

vars == <<parserVars, conv, rendered>>

---------------------------------------------------------------------------
(* Bounds of the model *)

\* longest pattern text drawn from the whole alphabet
MaxLen == 3

\* longest pattern text drawn from the characters of a numeric body
MaxBody == 5

\* longest text handed to the localized-symbol converter
MaxText == 5

\* how far beyond dosMax a size field of given properties goes
MaxOver == 2

\* longest pattern text drawn from the characters of pad specifiers and quotes
MaxPad == 5

\* longest pattern text drawn from the characters of a numeric body with exponent
MaxExp == 5

\* longest result of convertLocalized that the scan is followed to
MaxResult == 24

\* longest pattern text drawn from the characters of affixes with signs
MaxAffix == 4

\* longest pattern text drawn from the characters of scientific notation
MaxSci == 5

\* the format width of the given properties that are padded
MaxWidth == 8

\* longest negative subpattern set after a positive subpattern
MaxNegative == 3

---------------------------------------------------------------------------
(* Values *)

\* a bogus UnicodeString: a text that is no character sequence of the model
Bogus == <<"bogus">>
Null == "null"
EOL == "-1"

U_ZERO_ERROR == "U_ZERO_ERROR"
U_PATTERN_SYNTAX_ERROR == "U_PATTERN_SYNTAX_ERROR"
U_UNEXPECTED_TOKEN == "U_UNEXPECTED_TOKEN"
U_MULTIPLE_PAD_SPECIFIERS == "U_MULTIPLE_PAD_SPECIFIERS"
U_MALFORMED_EXPONENTIAL_PATTERN == "U_MALFORMED_EXPONENTIAL_PATTERN"
U_UNQUOTED_SPECIAL == "U_UNQUOTED_SPECIAL"

U_FAILURE(s) == s # U_ZERO_ERROR

IGNORE_ROUNDING_NEVER == "IGNORE_ROUNDING_NEVER"
IGNORE_ROUNDING_IF_CURRENCY == "IGNORE_ROUNDING_IF_CURRENCY"
IGNORE_ROUNDING_ALWAYS == "IGNORE_ROUNDING_ALWAYS"
IgnoreRounding ==
    {IGNORE_ROUNDING_NEVER, IGNORE_ROUNDING_IF_CURRENCY, IGNORE_ROUNDING_ALWAYS}

UNUM_PAD_BEFORE_PREFIX == "UNUM_PAD_BEFORE_PREFIX"
UNUM_PAD_AFTER_PREFIX == "UNUM_PAD_AFTER_PREFIX"
UNUM_PAD_BEFORE_SUFFIX == "UNUM_PAD_BEFORE_SUFFIX"
UNUM_PAD_AFTER_SUFFIX == "UNUM_PAD_AFTER_SUFFIX"

\* the characters U+2030 (per mille) and U+00A4 (currency), one character each
PerMille == "u2030"
Currency == "u00a4"

Digits == <<"0", "1", "2", "3", "4", "5", "6", "7", "8", "9">>
DigitChars == {Digits[i] : i \in 1..10}
DigitValue(c) == (CHOOSE i \in 1..10 : Digits[i] = c) - 1

uprv_min(a, b) == IF a < b THEN a ELSE b
uprv_max(a, b) == IF a > b THEN a ELSE b

RECURSIVE Pow10(_)
Pow10(n) == IF n <= 0 THEN 1 ELSE 10 * Pow10(n - 1)

\* the text s[from+1 .. from+len], as UnicodeString(src, start, length)
Sub(s, from, len) == [i \in 1..len |-> s[from + i]]

\* the character c, n times
Repeat(c, n) == [k \in 1..n |-> c]

\* every text over the characters A of length at most n
RECURSIVE TextsUpTo(_, _)
TextsUpTo(A, n) ==
    IF n = 0 THEN {<< >>}
    ELSE LET shorter == TextsUpTo(A, n - 1)
         IN  shorter \cup {Append(t, c) : t \in {u \in shorter : Len(u) = n - 1}, c \in A}

---------------------------------------------------------------------------
(* DecimalQuantity, as far as the pattern's rounding increment uses it:    *)
(* the value mant * 10^scale, mant without a trailing zero digit.          *)

ZeroQuantity == [mant |-> 0, scale |-> 0]

isZero(q) == q.mant = 0

appendDigit(q, value, leadingZeros, appendAsInteger) ==
    IF value = 0
    THEN IF appendAsInteger /\ q.mant # 0
         THEN [q EXCEPT !.scale = q.scale + leadingZeros + 1]
         ELSE q
    ELSE LET lz == IF q.scale > 0 THEN leadingZeros + q.scale ELSE leadingZeros
             sc == IF q.scale > 0 /\ appendAsInteger THEN 0 ELSE q.scale
             shifted == [mant |-> q.mant * Pow10(lz + 1) + value,
                         scale |-> sc - (lz + 1)]
         IN  IF appendAsInteger
             THEN [shifted EXCEPT !.scale = shifted.scale + lz + 1]
             ELSE shifted

---------------------------------------------------------------------------
(* ParsedSubpatternInfo and ParsedPatternInfo *)

\* groupingSizes is an int64 holding four 16-bit slots; slot 1 is the low one.
\* The initial value is 0x0000ffffffff0000.
InitialGroupingSizes == <<0, 65535, 65535, 0>>

int16(v) == IF v >= 32768 THEN v - 65536 ELSE v

\* groupingSizes <<= 16
ShiftGrouping(g) == <<0, g[1], g[2], g[3]>>

\* groupingSizes += 1
IncrementGrouping(g) ==
    IF g[1] < 65535 THEN <<g[1] + 1, g[2], g[3], g[4]>>
    ELSE IF g[2] < 65535 THEN <<0, g[2] + 1, g[3], g[4]>>
    ELSE IF g[3] < 65535 THEN <<0, 0, g[3] + 1, g[4]>>
    ELSE <<0, 0, 0, (g[4] + 1) % 65536>>

Endpoints(s, e) == [start |-> s, end |-> e]

ParsedSubpatternInfo ==
    [groupingSizes |-> InitialGroupingSizes,
     integerLeadingHashSigns |-> 0,
     integerTrailingHashSigns |-> 0,
     integerNumerals |-> 0,
     integerAtSigns |-> 0,
     integerTotal |-> 0,
     fractionNumerals |-> 0,
     fractionHashSigns |-> 0,
     fractionTotal |-> 0,
     hasDecimal |-> FALSE,
     widthExceptAffixes |-> 0,
     hasPadding |-> FALSE,
     paddingLocation |-> UNUM_PAD_BEFORE_PREFIX,
     rounding |-> ZeroQuantity,
     exponentHasPlusSign |-> FALSE,
     exponentZeros |-> 0,
     hasPercentSign |-> FALSE,
     hasPerMilleSign |-> FALSE,
     hasCurrencySign |-> FALSE,
     hasMinusSign |-> FALSE,
     hasPlusSign |-> FALSE,
     prefixEndpoints |-> Endpoints(0, 0),
     suffixEndpoints |-> Endpoints(0, 0),
     paddingEndpoints |-> Endpoints(0, 0)]

ParsedPatternInfo ==
    [pattern |-> << >>,
     offset |-> 0,
     positive |-> ParsedSubpatternInfo,
     negative |-> ParsedSubpatternInfo,
     fHasNegativeSubpattern |-> FALSE,
     currentSubpattern |-> "positive"]

\* ParserState::peek
peek(i) == IF i.offset >= Len(i.pattern) THEN EOL ELSE i.pattern[i.offset + 1]

\* ParserState::next: U16_LENGTH(-1) is 2
next(i) == [i EXCEPT !.offset = i.offset + (IF peek(i) = EOL THEN 2 ELSE 1)]

\* *currentSubpattern
current(i) == i[i.currentSubpattern]

setCurrent(i, sub) == [i EXCEPT ![i.currentSubpattern] = sub]


---------------------------------------------------------------------------
(* The recursive-descent parser, one step per action.  pc names the        *)
(* function that runs next; a function that returns to consumeSubpattern   *)
(* advances stage.                                                         *)

\* characters that cannot appear unquoted in a literal (consumeAffix)
AffixStop == {"#", "@", ";", "*", ".", ","} \cup DigitChars \cup {EOL}

\* what the switch of consumeAffix records for the character c
AffixFlag(r, c) ==
    CASE c = "%" -> [r EXCEPT !.hasPercentSign = TRUE]
      [] c = PerMille -> [r EXCEPT !.hasPerMilleSign = TRUE]
      [] c = Currency -> [r EXCEPT !.hasCurrencySign = TRUE]
      [] c = "-" -> [r EXCEPT !.hasMinusSign = TRUE]
      [] c = "+" -> [r EXCEPT !.hasPlusSign = TRUE]
      [] OTHER -> r

\* IntegerSymbol without the test for a '#' inside a run of '@'
IntegerSymbol_atAfterTrailingHash(r, c) ==
    CASE c = "," ->
           [sub |-> [r EXCEPT !.widthExceptAffixes = @ + 1,
                              !.groupingSizes = ShiftGrouping(@)],
            status |-> U_ZERO_ERROR, consumed |-> TRUE]
      [] c = "#" ->
           IF r.integerNumerals > 0
           THEN [sub |-> r, status |-> U_UNEXPECTED_TOKEN, consumed |-> FALSE]
           ELSE [sub |-> [r EXCEPT !.widthExceptAffixes = @ + 1,
                                   !.groupingSizes = IncrementGrouping(@),
                                   !.integerTrailingHashSigns =
                                       IF r.integerAtSigns > 0 THEN @ + 1 ELSE @,
                                   !.integerLeadingHashSigns =
                                       IF r.integerAtSigns > 0 THEN @ ELSE @ + 1,
                                   !.integerTotal = @ + 1],
                 status |-> U_ZERO_ERROR, consumed |-> TRUE]
      [] c = "@" ->
           IF r.integerNumerals > 0
           THEN [sub |-> r, status |-> U_UNEXPECTED_TOKEN, consumed |-> FALSE]
           ELSE [sub |-> [r EXCEPT !.widthExceptAffixes = @ + 1,
                                   !.groupingSizes = IncrementGrouping(@),
                                   !.integerAtSigns = @ + 1,
                                   !.integerTotal = @ + 1],
                 status |-> U_ZERO_ERROR, consumed |-> TRUE]
      [] c \in DigitChars ->
           IF r.integerAtSigns > 0
           THEN [sub |-> r, status |-> U_UNEXPECTED_TOKEN, consumed |-> FALSE]
           ELSE [sub |-> [r EXCEPT !.widthExceptAffixes = @ + 1,
                                   !.groupingSizes = IncrementGrouping(@),
                                   !.integerNumerals = @ + 1,
                                   !.integerTotal = @ + 1,
                                   !.rounding =
                                       IF ~isZero(r.rounding) \/ c # "0"
                                       THEN appendDigit(@, DigitValue(c), 0, TRUE)
                                       ELSE @],
                 status |-> U_ZERO_ERROR, consumed |-> TRUE]
      [] OTHER -> [sub |-> r, status |-> U_ZERO_ERROR, consumed |-> FALSE]

\* one iteration of the loop of consumeIntegerFormat on the character c:
\* the subpattern, the status, and whether the symbol is consumed
IntegerSymbol(r, c) ==
    CASE c = "," ->
           [sub |-> [r EXCEPT !.widthExceptAffixes = @ + 1,
                              !.groupingSizes = ShiftGrouping(@)],
            status |-> U_ZERO_ERROR, consumed |-> TRUE]
      [] c = "#" ->
           IF r.integerNumerals > 0
           THEN [sub |-> r, status |-> U_UNEXPECTED_TOKEN, consumed |-> FALSE]
           ELSE [sub |-> [r EXCEPT !.widthExceptAffixes = @ + 1,
                                   !.groupingSizes = IncrementGrouping(@),
                                   !.integerTrailingHashSigns =
                                       IF r.integerAtSigns > 0 THEN @ + 1 ELSE @,
                                   !.integerLeadingHashSigns =
                                       IF r.integerAtSigns > 0 THEN @ ELSE @ + 1,
                                   !.integerTotal = @ + 1],
                 status |-> U_ZERO_ERROR, consumed |-> TRUE]
      [] c = "@" ->
           IF r.integerNumerals > 0 \/ r.integerTrailingHashSigns > 0
           THEN [sub |-> r, status |-> U_UNEXPECTED_TOKEN, consumed |-> FALSE]
           ELSE [sub |-> [r EXCEPT !.widthExceptAffixes = @ + 1,
                                   !.groupingSizes = IncrementGrouping(@),
                                   !.integerAtSigns = @ + 1,
                                   !.integerTotal = @ + 1],
                 status |-> U_ZERO_ERROR, consumed |-> TRUE]
      [] c \in DigitChars ->
           IF r.integerAtSigns > 0
           THEN [sub |-> r, status |-> U_UNEXPECTED_TOKEN, consumed |-> FALSE]
           ELSE [sub |-> [r EXCEPT !.widthExceptAffixes = @ + 1,
                                   !.groupingSizes = IncrementGrouping(@),
                                   !.integerNumerals = @ + 1,
                                   !.integerTotal = @ + 1,
                                   !.rounding =
                                       IF ~isZero(r.rounding) \/ c # "0"
                                       THEN appendDigit(@, DigitValue(c), 0, TRUE)
                                       ELSE @],
                 status |-> U_ZERO_ERROR, consumed |-> TRUE]
      [] OTHER -> [sub |-> r, status |-> U_ZERO_ERROR, consumed |-> FALSE]

\* GroupingCheck with the test of the second grouping size inverted
GroupingCheck_inverted(r) ==
    LET grouping1 == int16(r.groupingSizes[1])
        grouping2 == int16(r.groupingSizes[2])
        grouping3 == int16(r.groupingSizes[3])
    IN  IF grouping1 = 0 /\ grouping2 # -1 THEN U_UNEXPECTED_TOKEN
        ELSE IF grouping2 # 0 /\ grouping3 # -1 THEN U_PATTERN_SYNTAX_ERROR
        ELSE U_ZERO_ERROR

\* after_outer of consumeIntegerFormat: the status the grouping sizes give
GroupingCheck(r) ==
    LET grouping1 == int16(r.groupingSizes[1])
        grouping2 == int16(r.groupingSizes[2])
        grouping3 == int16(r.groupingSizes[3])
    IN  IF grouping1 = 0 /\ grouping2 # -1 THEN U_UNEXPECTED_TOKEN
        ELSE IF grouping2 = 0 /\ grouping3 # -1 THEN U_PATTERN_SYNTAX_ERROR
        ELSE U_ZERO_ERROR

\* one iteration of the loop of consumeFractionFormat on the character c
FractionSymbol(r, c, zc) ==
    CASE c = "#" ->
           [sub |-> [r EXCEPT !.widthExceptAffixes = @ + 1,
                              !.fractionHashSigns = @ + 1,
                              !.fractionTotal = @ + 1],
            zeroCounter |-> zc + 1, status |-> U_ZERO_ERROR, consumed |-> TRUE]
      [] c \in DigitChars ->
           IF r.fractionHashSigns > 0
           THEN [sub |-> r, zeroCounter |-> zc, status |-> U_UNEXPECTED_TOKEN,
                 consumed |-> FALSE]
           ELSE [sub |-> [r EXCEPT !.widthExceptAffixes = @ + 1,
                                   !.fractionNumerals = @ + 1,
                                   !.fractionTotal = @ + 1,
                                   !.rounding =
                                       IF c = "0" THEN @
                                       ELSE appendDigit(@, DigitValue(c), zc, FALSE)],
                 zeroCounter |-> IF c = "0" THEN zc + 1 ELSE 0,
                 status |-> U_ZERO_ERROR, consumed |-> TRUE]
      [] OTHER -> [sub |-> r, zeroCounter |-> zc, status |-> U_ZERO_ERROR,
                   consumed |-> FALSE]

\* the PadPosition consumeSubpattern passes at each of its stages
PaddingLocationAt(s) ==
    CASE s = 1 -> UNUM_PAD_BEFORE_PREFIX
      [] s = 3 -> UNUM_PAD_AFTER_PREFIX
      [] s = 6 -> UNUM_PAD_BEFORE_SUFFIX
      [] OTHER -> UNUM_PAD_AFTER_SUFFIX

\* the function consumeSubpattern calls at each of its stages
CalleeAt(s) ==
    CASE s \in {1, 3, 6, 8} -> "consumePadding"
      [] s \in {2, 7} -> "consumeAffix"
      [] s = 4 -> "consumeFormat"
      [] OTHER -> "consumeExponent"

\* the statements shared by every return to consumeSubpattern
ReturnToSubpattern == pc' = "consumeSubpattern" /\ stage' = stage + 1

\* consumePattern without the test for text after the subpatterns
consumePattern_ignoresRest ==
    /\ pc \in {"consumePattern", "afterSubpattern"}
    /\ IF pc = "consumePattern"
       THEN /\ info' = [info EXCEPT !.pattern = pattern, !.currentSubpattern = "positive"]
            /\ pc' = "consumeSubpattern"
            /\ stage' = 1
            /\ UNCHANGED status
       ELSE IF U_FAILURE(status)
       THEN /\ pc' = "parsed"
            /\ UNCHANGED <<info, status, stage>>
       ELSE IF info.currentSubpattern = "positive" /\ peek(info) = ";" /\ peek(next(info)) # EOL
       THEN /\ info' = [next(info) EXCEPT !.fHasNegativeSubpattern = TRUE,
                                          !.currentSubpattern = "negative"]
            /\ pc' = "consumeSubpattern"
            /\ stage' = 1
            /\ UNCHANGED status
       ELSE LET after == IF info.currentSubpattern = "positive" /\ peek(info) = ";"
                         THEN next(info) ELSE info
            IN  /\ info' = after
                /\ status' = status
                /\ pc' = "parsed"
                /\ UNCHANGED stage
    /\ UNCHANGED <<pattern, ignoreRounding, properties, ret, zeroCounter, round, trip, conv, rendered>>

consumePattern ==
    /\ pc \in {"consumePattern", "afterSubpattern"}
    /\ IF pc = "consumePattern"
       THEN /\ info' = [info EXCEPT !.pattern = pattern, !.currentSubpattern = "positive"]
            /\ pc' = "consumeSubpattern"
            /\ stage' = 1
            /\ UNCHANGED status
       ELSE IF U_FAILURE(status)
       THEN /\ pc' = "parsed"
            /\ UNCHANGED <<info, status, stage>>
       ELSE IF info.currentSubpattern = "positive" /\ peek(info) = ";" /\ peek(next(info)) # EOL
       THEN /\ info' = [next(info) EXCEPT !.fHasNegativeSubpattern = TRUE,
                                          !.currentSubpattern = "negative"]
            /\ pc' = "consumeSubpattern"
            /\ stage' = 1
            /\ UNCHANGED status
       ELSE LET after == IF info.currentSubpattern = "positive" /\ peek(info) = ";"
                         THEN next(info) ELSE info
            IN  /\ info' = after
                /\ status' = IF peek(after) # EOL THEN U_UNQUOTED_SPECIAL ELSE status
                /\ pc' = "parsed"
                /\ UNCHANGED stage
    /\ UNCHANGED <<pattern, ignoreRounding, properties, ret, zeroCounter, round, trip, conv, rendered>>

consumeSubpattern ==
    /\ pc = "consumeSubpattern"
    /\ IF U_FAILURE(status) \/ stage = 9
       THEN pc' = "afterSubpattern"
       ELSE pc' = CalleeAt(stage)
    /\ UNCHANGED <<pattern, ignoreRounding, properties, info, status, stage, ret,
                   zeroCounter, round, trip, conv, rendered>>

\* consumePadding counting the pad specifiers of both subpatterns together
consumePadding_sharedCount ==
    /\ pc \in {"consumePadding", "consumePaddingEnd"}
    /\ IF pc = "consumePaddingEnd"
       THEN /\ info' = setCurrent(info,
                          [current(info) EXCEPT !.paddingEndpoints.end = info.offset])
            /\ ReturnToSubpattern
            /\ UNCHANGED <<status, ret>>
       ELSE IF peek(info) # "*"
       THEN /\ ReturnToSubpattern
            /\ UNCHANGED <<info, status, ret>>
       ELSE IF info.positive.hasPadding
       THEN /\ status' = U_MULTIPLE_PAD_SPECIFIERS
            /\ ReturnToSubpattern
            /\ UNCHANGED <<info, ret>>
       ELSE /\ info' = LET marked == setCurrent(info,
                                        [current(info) EXCEPT
                                            !.paddingLocation = PaddingLocationAt(stage),
                                            !.hasPadding = TRUE])
                           after == next(marked)
                       IN  setCurrent(after,
                               [current(after) EXCEPT !.paddingEndpoints.start = after.offset])
            /\ pc' = "consumeLiteral"
            /\ ret' = "consumePaddingEnd"
            /\ UNCHANGED <<status, stage>>
    /\ UNCHANGED <<pattern, ignoreRounding, properties, zeroCounter, round, trip, conv, rendered>>

consumePadding ==
    /\ pc \in {"consumePadding", "consumePaddingEnd"}
    /\ IF pc = "consumePaddingEnd"
       THEN /\ info' = setCurrent(info,
                          [current(info) EXCEPT !.paddingEndpoints.end = info.offset])
            /\ ReturnToSubpattern
            /\ UNCHANGED <<status, ret>>
       ELSE IF peek(info) # "*"
       THEN /\ ReturnToSubpattern
            /\ UNCHANGED <<info, status, ret>>
       ELSE IF current(info).hasPadding
       THEN /\ status' = U_MULTIPLE_PAD_SPECIFIERS
            /\ ReturnToSubpattern
            /\ UNCHANGED <<info, ret>>
       ELSE /\ info' = LET marked == setCurrent(info,
                                        [current(info) EXCEPT
                                            !.paddingLocation = PaddingLocationAt(stage),
                                            !.hasPadding = TRUE])
                           after == next(marked)
                       IN  setCurrent(after,
                               [current(after) EXCEPT !.paddingEndpoints.start = after.offset])
            /\ pc' = "consumeLiteral"
            /\ ret' = "consumePaddingEnd"
            /\ UNCHANGED <<status, stage>>
    /\ UNCHANGED <<pattern, ignoreRounding, properties, zeroCounter, round, trip, conv, rendered>>

\* the Endpoints consumeSubpattern passes to consumeAffix at the stage s
AffixEndpointsAt(s) == IF s = 2 THEN "prefixEndpoints" ELSE "suffixEndpoints"

consumeAffix ==
    /\ pc \in {"consumeAffix", "consumeAffixLoop", "consumeAffixAfterLiteral"}
    /\ IF pc = "consumeAffix"
       THEN /\ info' = setCurrent(info,
                          [current(info) EXCEPT ![AffixEndpointsAt(stage)].start = info.offset])
            /\ pc' = "consumeAffixLoop"
            /\ UNCHANGED <<stage, ret>>
       ELSE IF pc = "consumeAffixAfterLiteral"
       THEN /\ IF U_FAILURE(status)
               THEN ReturnToSubpattern
               ELSE pc' = "consumeAffixLoop" /\ UNCHANGED stage
            /\ UNCHANGED <<info, ret>>
       ELSE IF peek(info) \in AffixStop
       THEN /\ info' = setCurrent(info,
                          [current(info) EXCEPT ![AffixEndpointsAt(stage)].end = info.offset])
            /\ ReturnToSubpattern
            /\ UNCHANGED ret
       ELSE /\ info' = setCurrent(info, AffixFlag(current(info), peek(info)))
            /\ pc' = "consumeLiteral"
            /\ ret' = "consumeAffixAfterLiteral"
            /\ UNCHANGED stage
    /\ UNCHANGED <<pattern, ignoreRounding, properties, status, zeroCounter, round, trip, conv, rendered>>

\* consumeLiteral testing for the end of the text after it has advanced
consumeLiteral_advancesAtEnd ==
    /\ pc \in {"consumeLiteral", "consumeLiteralQuoted"}
    /\ IF peek(info) = EOL
       THEN /\ status' = U_PATTERN_SYNTAX_ERROR
            /\ pc' = ret
            /\ info' = IF pc = "consumeLiteralQuoted" THEN next(info) ELSE info
       ELSE IF pc = "consumeLiteral"
       THEN /\ info' = next(info)
            /\ pc' = IF peek(info) = "'" THEN "consumeLiteralQuoted" ELSE ret
            /\ UNCHANGED status
       ELSE /\ info' = next(info)
            /\ pc' = IF peek(info) = "'" THEN ret ELSE "consumeLiteralQuoted"
            /\ UNCHANGED status
    /\ UNCHANGED <<pattern, ignoreRounding, properties, stage, ret, zeroCounter, round, trip, conv, rendered>>

\* consumeLiteral taking the rest of the text as the literal of an open quote
consumeLiteral_restIsLiteral ==
    /\ pc \in {"consumeLiteral", "consumeLiteralQuoted"}
    /\ IF peek(info) = EOL
       THEN /\ status' = IF pc = "consumeLiteral" THEN U_PATTERN_SYNTAX_ERROR ELSE status
            /\ pc' = ret
            /\ UNCHANGED info
       ELSE IF pc = "consumeLiteral"
       THEN /\ info' = next(info)
            /\ pc' = IF peek(info) = "'" THEN "consumeLiteralQuoted" ELSE ret
            /\ UNCHANGED status
       ELSE /\ info' = next(info)
            /\ pc' = IF peek(info) = "'" THEN ret ELSE "consumeLiteralQuoted"
            /\ UNCHANGED status
    /\ UNCHANGED <<pattern, ignoreRounding, properties, stage, ret, zeroCounter, round, trip, conv, rendered>>

consumeLiteral ==
    /\ pc \in {"consumeLiteral", "consumeLiteralQuoted"}
    /\ IF peek(info) = EOL
       THEN /\ status' = U_PATTERN_SYNTAX_ERROR
            /\ pc' = ret
            /\ UNCHANGED info
       ELSE IF pc = "consumeLiteral"
       THEN /\ info' = next(info)
            /\ pc' = IF peek(info) = "'" THEN "consumeLiteralQuoted" ELSE ret
            /\ UNCHANGED status
       ELSE /\ info' = next(info)
            /\ pc' = IF peek(info) = "'" THEN ret ELSE "consumeLiteralQuoted"
            /\ UNCHANGED status
    /\ UNCHANGED <<pattern, ignoreRounding, properties, stage, ret, zeroCounter, round, trip, conv, rendered>>

consumeFormat ==
    /\ pc \in {"consumeFormat", "consumeFormatAfterInteger", "consumeFormatAfterFraction"}
    /\ IF pc = "consumeFormat"
       THEN /\ pc' = "consumeIntegerFormat"
            /\ UNCHANGED <<info, stage, zeroCounter>>
       ELSE IF pc = "consumeFormatAfterInteger" /\ ~U_FAILURE(status) /\ peek(info) = "."
       THEN /\ info' = LET after == next(info)
                       IN  setCurrent(after, [current(after) EXCEPT
                                                 !.hasDecimal = TRUE,
                                                 !.widthExceptAffixes = @ + 1])
            /\ pc' = "consumeFractionFormat"
            /\ zeroCounter' = 0
            /\ UNCHANGED stage
       ELSE /\ ReturnToSubpattern
            /\ UNCHANGED <<info, zeroCounter>>
    /\ UNCHANGED <<pattern, ignoreRounding, properties, status, ret, round, trip, conv, rendered>>

consumeIntegerFormat ==
    /\ pc = "consumeIntegerFormat"
    /\ LET step == IntegerSymbol(current(info), peek(info))
       IN  IF step.consumed
           THEN /\ info' = next(setCurrent(info, step.sub))
                /\ UNCHANGED <<status, pc>>
           ELSE /\ status' = IF U_FAILURE(step.status) THEN step.status
                             ELSE GroupingCheck(current(info))
                /\ pc' = "consumeFormatAfterInteger"
                /\ UNCHANGED info
    /\ UNCHANGED <<pattern, ignoreRounding, properties, stage, ret, zeroCounter, round, trip, conv, rendered>>

consumeFractionFormat ==
    /\ pc = "consumeFractionFormat"
    /\ LET step == FractionSymbol(current(info), peek(info), zeroCounter)
       IN  IF step.consumed
           THEN /\ info' = next(setCurrent(info, step.sub))
                /\ zeroCounter' = step.zeroCounter
                /\ UNCHANGED <<status, pc>>
           ELSE /\ status' = step.status
                /\ pc' = "consumeFormatAfterFraction"
                /\ UNCHANGED <<info, zeroCounter>>
    /\ UNCHANGED <<pattern, ignoreRounding, properties, stage, ret, round, trip, conv, rendered>>

\* the test of the third slot in place of the second
HasGroupingSeparator_thirdSlot(r) == r.groupingSizes[3] # 65535

\* (groupingSizes & 0xffff0000L) != 0xffff0000L
HasGroupingSeparator(r) == r.groupingSizes[2] # 65535

consumeExponent ==
    /\ pc \in {"consumeExponent", "consumeExponentZeros"}
    /\ IF pc = "consumeExponent"
       THEN IF peek(info) # "E"
            THEN /\ ReturnToSubpattern
                 /\ UNCHANGED <<info, status>>
            ELSE IF HasGroupingSeparator(current(info))
            THEN /\ status' = U_MALFORMED_EXPONENTIAL_PATTERN
                 /\ ReturnToSubpattern
                 /\ UNCHANGED info
            ELSE /\ info' = LET afterE == next(info)
                                e == setCurrent(afterE, [current(afterE) EXCEPT
                                                            !.widthExceptAffixes = @ + 1])
                            IN  IF peek(e) = "+"
                                THEN setCurrent(next(e), [current(e) EXCEPT
                                                             !.exponentHasPlusSign = TRUE,
                                                             !.widthExceptAffixes = @ + 1])
                                ELSE e
                 /\ pc' = "consumeExponentZeros"
                 /\ UNCHANGED <<status, stage>>
       ELSE IF peek(info) = "0"
            THEN /\ info' = LET after == next(info)
                            IN  setCurrent(after, [current(after) EXCEPT
                                                      !.exponentZeros = @ + 1,
                                                      !.widthExceptAffixes = @ + 1])
                 /\ UNCHANGED <<status, pc, stage>>
            ELSE /\ ReturnToSubpattern
                 /\ UNCHANGED <<info, status>>
    /\ UNCHANGED <<pattern, ignoreRounding, properties, ret, zeroCounter, round, trip, conv, rendered>>

---------------------------------------------------------------------------
(* DecimalFormatProperties and the translation of a parsed pattern *)

\* DecimalFormatProperties::clear: the state of a new DecimalFormatProperties
Clear ==
    [groupingSize |-> -1,
     groupingUsed |-> TRUE,
     secondaryGroupingSize |-> -1,
     minimumIntegerDigits |-> -1,
     maximumIntegerDigits |-> -1,
     minimumFractionDigits |-> -1,
     maximumFractionDigits |-> -1,
     minimumSignificantDigits |-> -1,
     maximumSignificantDigits |-> -1,
     roundingIncrement |-> ZeroQuantity,
     decimalSeparatorAlwaysShown |-> FALSE,
     exponentSignAlwaysShown |-> FALSE,
     minimumExponentDigits |-> -1,
     formatWidth |-> -1,
     padString |-> Bogus,
     padPosition |-> Null,
     positivePrefixPattern |-> Bogus,
     positiveSuffixPattern |-> Bogus,
     negativePrefixPattern |-> Bogus,
     negativeSuffixPattern |-> Bogus,
     positivePrefix |-> Bogus,
     positiveSuffix |-> Bogus,
     negativePrefix |-> Bogus,
     negativeSuffix |-> Bogus,
     magnitudeMultiplier |-> 0]

\* DecimalQuantity::toDouble: the value of the quantity; mant * 10^scale with
\* mant free of trailing zeros is one value per double for the digits modelled
toDouble(q) == IF q.mant = 0 THEN ZeroQuantity ELSE q

\* ParsedPatternInfo::getString on the given Endpoints
getString(i, endpoints) ==
    IF endpoints.start = endpoints.end THEN << >>
    ELSE Sub(i.pattern, endpoints.start, endpoints.end - endpoints.start)

\* AffixUtils::estimateLength: the length of an affix pattern without its
\* quoting; q is "base", "first" (after an opening quote), "inside" or "after"
RECURSIVE EstimateFrom(_, _, _)
EstimateFrom(t, k, q) ==
    IF k > Len(t) THEN 0
    ELSE LET c == t[k]
         IN  CASE q = "base" ->
                    IF c = "'" THEN EstimateFrom(t, k + 1, "first")
                    ELSE 1 + EstimateFrom(t, k + 1, "base")
               [] q = "first" ->
                    IF c = "'" THEN 1 + EstimateFrom(t, k + 1, "base")
                    ELSE 1 + EstimateFrom(t, k + 1, "inside")
               [] q = "inside" ->
                    IF c = "'" THEN EstimateFrom(t, k + 1, "after")
                    ELSE 1 + EstimateFrom(t, k + 1, "inside")
               [] OTHER ->
                    IF c = "'" THEN 1 + EstimateFrom(t, k + 1, "inside")
                    ELSE 1 + EstimateFrom(t, k + 1, "base")

estimateLength(t) == EstimateFrom(t, 1, "base")

\* bool ignoreRounding of patternInfoToProperties
IgnoresRounding_alwaysOnly(positive, policy) == policy = IGNORE_ROUNDING_ALWAYS

\* bool ignoreRounding
IgnoresRounding(positive, policy) ==
    IF policy = IGNORE_ROUNDING_NEVER THEN FALSE
    ELSE IF policy = IGNORE_ROUNDING_IF_CURRENCY THEN positive.hasCurrencySign
    ELSE TRUE

\* GroupingSettings with the secondary size decided by the second slot
GroupingSettings_secondSlot(positive) ==
    LET grouping1 == int16(positive.groupingSizes[1])
        grouping2 == int16(positive.groupingSizes[2])
    IN  [groupingSize |-> IF grouping2 # -1 THEN grouping1 ELSE -1,
         groupingUsed |-> grouping2 # -1,
         secondaryGroupingSize |-> IF grouping2 # -1 THEN grouping2 ELSE -1]

\* "Grouping settings"
GroupingSettings(positive) ==
    LET grouping1 == int16(positive.groupingSizes[1])
        grouping2 == int16(positive.groupingSizes[2])
        grouping3 == int16(positive.groupingSizes[3])
    IN  [groupingSize |-> IF grouping2 # -1 THEN grouping1 ELSE -1,
         groupingUsed |-> grouping2 # -1,
         secondaryGroupingSize |-> IF grouping3 # -1 THEN grouping2 ELSE -1]

\* MinimumDigits as the counts of the fixed digits alone
MinimumDigits_countsOnly(positive) ==
    [minInt |-> positive.integerNumerals, minFrac |-> positive.fractionNumerals]

\* int minInt, minFrac
MinimumDigits(positive) ==
    IF positive.integerTotal = 0 /\ positive.fractionTotal > 0
    THEN [minInt |-> 0, minFrac |-> uprv_max(1, positive.fractionNumerals)]
    ELSE IF positive.integerNumerals = 0 /\ positive.fractionNumerals = 0
    THEN [minInt |-> 1, minFrac |-> 0]
    ELSE [minInt |-> positive.integerNumerals, minFrac |-> positive.fractionNumerals]

\* RoundingSettings without the clearing of the fraction fields in
\* significant-digit mode
RoundingSettings_keepsFraction(positive, ignore) ==
    LET minFrac == MinimumDigits(positive).minFrac
    IN  [minimumFractionDigits |-> IF ~ignore THEN minFrac ELSE -1,
         maximumFractionDigits |-> IF ~ignore THEN positive.fractionTotal ELSE -1,
         roundingIncrement |->
             IF ~ignore /\ positive.integerAtSigns = 0
             THEN toDouble(positive.rounding) ELSE ZeroQuantity,
         minimumSignificantDigits |->
             IF positive.integerAtSigns > 0 THEN positive.integerAtSigns ELSE -1,
         maximumSignificantDigits |->
             IF positive.integerAtSigns > 0
             THEN positive.integerAtSigns + positive.integerTrailingHashSigns
             ELSE -1]

\* "Rounding settings"
RoundingSettings(positive, ignore) ==
    LET minFrac == MinimumDigits(positive).minFrac
    IN  IF positive.integerAtSigns > 0
        THEN [minimumFractionDigits |-> -1,
              maximumFractionDigits |-> -1,
              roundingIncrement |-> ZeroQuantity,
              minimumSignificantDigits |-> positive.integerAtSigns,
              maximumSignificantDigits |->
                  positive.integerAtSigns + positive.integerTrailingHashSigns]
        ELSE IF ~isZero(positive.rounding)
        THEN [minimumFractionDigits |-> IF ~ignore THEN minFrac ELSE -1,
              maximumFractionDigits |-> IF ~ignore THEN positive.fractionTotal ELSE -1,
              roundingIncrement |->
                  IF ~ignore THEN toDouble(positive.rounding) ELSE ZeroQuantity,
              minimumSignificantDigits |-> -1,
              maximumSignificantDigits |-> -1]
        ELSE [minimumFractionDigits |-> IF ~ignore THEN minFrac ELSE -1,
              maximumFractionDigits |-> IF ~ignore THEN positive.fractionTotal ELSE -1,
              roundingIncrement |-> ZeroQuantity,
              minimumSignificantDigits |-> -1,
              maximumSignificantDigits |-> -1]

\* ScientificSettings with the maximum integer digits taken from the fixed digits
ScientificSettings_maxOfNumerals(positive) ==
    IF positive.exponentZeros > 0
    THEN [exponentSignAlwaysShown |-> positive.exponentHasPlusSign,
          minimumExponentDigits |-> positive.exponentZeros,
          minimumIntegerDigits |->
              IF positive.integerAtSigns = 0 THEN positive.integerNumerals ELSE 1,
          maximumIntegerDigits |->
              IF positive.integerAtSigns = 0 THEN positive.integerNumerals ELSE -1]
    ELSE [exponentSignAlwaysShown |-> FALSE,
          minimumExponentDigits |-> -1,
          minimumIntegerDigits |-> MinimumDigits(positive).minInt,
          maximumIntegerDigits |-> -1]

\* "Scientific notation settings"
ScientificSettings(positive) ==
    IF positive.exponentZeros > 0
    THEN [exponentSignAlwaysShown |-> positive.exponentHasPlusSign,
          minimumExponentDigits |-> positive.exponentZeros,
          minimumIntegerDigits |->
              IF positive.integerAtSigns = 0 THEN positive.integerNumerals ELSE 1,
          maximumIntegerDigits |->
              IF positive.integerAtSigns = 0 THEN positive.integerTotal ELSE -1]
    ELSE [exponentSignAlwaysShown |-> FALSE,
          minimumExponentDigits |-> -1,
          minimumIntegerDigits |-> MinimumDigits(positive).minInt,
          maximumIntegerDigits |-> -1]

\* the pad string of the raw pad literal
PadStringOf(rawPaddingString) ==
    IF Len(rawPaddingString) = 1 THEN rawPaddingString
    ELSE IF Len(rawPaddingString) = 2
    THEN IF rawPaddingString[1] = "'" THEN <<"'">> ELSE rawPaddingString
    ELSE Sub(rawPaddingString, 1, Len(rawPaddingString) - 2)

\* PaddingSettings with the width of the numeric body alone
PaddingSettings_bodyOnly(i) ==
    LET positive == i.positive
    IN  IF positive.hasPadding
        THEN [formatWidth |-> positive.widthExceptAffixes,
              padString |-> PadStringOf(getString(i, positive.paddingEndpoints)),
              padPosition |-> positive.paddingLocation]
        ELSE [formatWidth |-> -1, padString |-> Bogus, padPosition |-> Null]

\* "Padding settings"
PaddingSettings(i) ==
    LET positive == i.positive
        posPrefix == getString(i, positive.prefixEndpoints)
        posSuffix == getString(i, positive.suffixEndpoints)
    IN  IF positive.hasPadding
        THEN [formatWidth |-> positive.widthExceptAffixes + estimateLength(posPrefix)
                                  + estimateLength(posSuffix),
              padString |-> PadStringOf(getString(i, positive.paddingEndpoints)),
              padPosition |-> positive.paddingLocation]
        ELSE [formatWidth |-> -1, padString |-> Bogus, padPosition |-> Null]

\* AffixSettings that reads the negative affixes whether or not a negative
\* subpattern was recorded
AffixSettings_neverUnset(i) ==
    [positivePrefixPattern |-> getString(i, i.positive.prefixEndpoints),
     positiveSuffixPattern |-> getString(i, i.positive.suffixEndpoints),
     negativePrefixPattern |-> getString(i, i.negative.prefixEndpoints),
     negativeSuffixPattern |-> getString(i, i.negative.suffixEndpoints)]

\* "Set the affixes"
AffixSettings(i) ==
    [positivePrefixPattern |-> getString(i, i.positive.prefixEndpoints),
     positiveSuffixPattern |-> getString(i, i.positive.suffixEndpoints),
     negativePrefixPattern |->
         IF i.fHasNegativeSubpattern THEN getString(i, i.negative.prefixEndpoints)
         ELSE Bogus,
     negativeSuffixPattern |->
         IF i.fHasNegativeSubpattern THEN getString(i, i.negative.suffixEndpoints)
         ELSE Bogus]

\* MagnitudeMultiplier with the per-mille sign tested first
MagnitudeMultiplier_perMilleFirst(positive) ==
    IF positive.hasPerMilleSign THEN 3
    ELSE IF positive.hasPercentSign THEN 2
    ELSE 0

\* "Set the magnitude multiplier"
MagnitudeMultiplier(positive) ==
    IF positive.hasPercentSign THEN 2
    ELSE IF positive.hasPerMilleSign THEN 3
    ELSE 0

\* patternInfoToProperties reading the subpattern that was parsed last
PatternInfoToProperties_lastSubpattern(props, i, policy) ==
    LET positive == IF i.fHasNegativeSubpattern THEN i.negative ELSE i.positive
        grouping == GroupingSettings(positive)
        rounding == RoundingSettings(positive, IgnoresRounding(positive, policy))
        scientific == ScientificSettings(positive)
        padding == PaddingSettings(i)
        affixes == AffixSettings(i)
    IN  [props EXCEPT
            !.groupingSize = grouping.groupingSize,
            !.groupingUsed = grouping.groupingUsed,
            !.secondaryGroupingSize = grouping.secondaryGroupingSize,
            !.minimumFractionDigits = rounding.minimumFractionDigits,
            !.maximumFractionDigits = rounding.maximumFractionDigits,
            !.roundingIncrement = rounding.roundingIncrement,
            !.minimumSignificantDigits = rounding.minimumSignificantDigits,
            !.maximumSignificantDigits = rounding.maximumSignificantDigits,
            !.decimalSeparatorAlwaysShown =
                positive.hasDecimal /\ positive.fractionTotal = 0,
            !.exponentSignAlwaysShown = scientific.exponentSignAlwaysShown,
            !.minimumExponentDigits = scientific.minimumExponentDigits,
            !.minimumIntegerDigits = scientific.minimumIntegerDigits,
            !.maximumIntegerDigits = scientific.maximumIntegerDigits,
            !.formatWidth = padding.formatWidth,
            !.padString = padding.padString,
            !.padPosition = padding.padPosition,
            !.positivePrefixPattern = affixes.positivePrefixPattern,
            !.positiveSuffixPattern = affixes.positiveSuffixPattern,
            !.negativePrefixPattern = affixes.negativePrefixPattern,
            !.negativeSuffixPattern = affixes.negativeSuffixPattern,
            !.magnitudeMultiplier = MagnitudeMultiplier(positive)]

\* PatternParser::patternInfoToProperties: the properties after the call
PatternInfoToProperties(props, i, policy) ==
    LET positive == i.positive
        grouping == GroupingSettings(positive)
        rounding == RoundingSettings(positive, IgnoresRounding(positive, policy))
        scientific == ScientificSettings(positive)
        padding == PaddingSettings(i)
        affixes == AffixSettings(i)
    IN  [props EXCEPT
            !.groupingSize = grouping.groupingSize,
            !.groupingUsed = grouping.groupingUsed,
            !.secondaryGroupingSize = grouping.secondaryGroupingSize,
            !.minimumFractionDigits = rounding.minimumFractionDigits,
            !.maximumFractionDigits = rounding.maximumFractionDigits,
            !.roundingIncrement = rounding.roundingIncrement,
            !.minimumSignificantDigits = rounding.minimumSignificantDigits,
            !.maximumSignificantDigits = rounding.maximumSignificantDigits,
            !.decimalSeparatorAlwaysShown =
                positive.hasDecimal /\ positive.fractionTotal = 0,
            !.exponentSignAlwaysShown = scientific.exponentSignAlwaysShown,
            !.minimumExponentDigits = scientific.minimumExponentDigits,
            !.minimumIntegerDigits = scientific.minimumIntegerDigits,
            !.maximumIntegerDigits = scientific.maximumIntegerDigits,
            !.formatWidth = padding.formatWidth,
            !.padString = padding.padString,
            !.padPosition = padding.padPosition,
            !.positivePrefixPattern = affixes.positivePrefixPattern,
            !.positiveSuffixPattern = affixes.positiveSuffixPattern,
            !.negativePrefixPattern = affixes.negativePrefixPattern,
            !.negativeSuffixPattern = affixes.negativeSuffixPattern,
            !.magnitudeMultiplier = MagnitudeMultiplier(positive)]

\* parseToExistingPropertiesImpl that clears the properties before it parses
parseToExistingPropertiesImpl_clearsFirst ==
    /\ pc \in {"parseToExistingPropertiesImpl", "parsed"}
    /\ IF pc = "parseToExistingPropertiesImpl"
       THEN IF Len(pattern) = 0
            THEN /\ pc' = "returned"
                 /\ UNCHANGED info
            ELSE /\ info' = ParsedPatternInfo
                 /\ pc' = "consumePattern"
       ELSE /\ pc' = IF U_FAILURE(status) THEN "returned" ELSE "patternInfoToProperties"
            /\ UNCHANGED info
    /\ properties' = IF pc = "parseToExistingPropertiesImpl" THEN Clear ELSE properties
    /\ UNCHANGED <<pattern, ignoreRounding, status, stage, ret, zeroCounter, round, trip, conv, rendered>>

\* PatternParser::parseToExistingPropertiesImpl
parseToExistingPropertiesImpl ==
    /\ pc \in {"parseToExistingPropertiesImpl", "parsed"}
    /\ IF pc = "parseToExistingPropertiesImpl"
       THEN IF Len(pattern) = 0
            THEN /\ pc' = "returned"
                 /\ UNCHANGED info
            ELSE /\ info' = ParsedPatternInfo
                 /\ pc' = "consumePattern"
       ELSE /\ pc' = IF U_FAILURE(status) THEN "returned" ELSE "patternInfoToProperties"
            /\ UNCHANGED info
    /\ properties' = IF pc = "parseToExistingPropertiesImpl" /\ Len(pattern) = 0
                     THEN Clear
                     ELSE properties
    /\ UNCHANGED <<pattern, ignoreRounding, status, stage, ret, zeroCounter, round, trip, conv, rendered>>

patternInfoToProperties ==
    /\ pc = "patternInfoToProperties"
    /\ properties' = PatternInfoToProperties(properties, info, ignoreRounding)
    /\ pc' = "returned"
    /\ UNCHANGED <<pattern, ignoreRounding, info, status, stage, ret, zeroCounter,
                   round, trip, conv, rendered>>

---------------------------------------------------------------------------
(* The serializer *)

isBogus(u) == u = Bogus

\* UnicodeString::length: a bogus string is empty
length(u) == IF isBogus(u) THEN 0 ELSE Len(u)

\* the characters of a UnicodeString: a bogus string has none
chars(u) == IF isBogus(u) THEN << >> ELSE u

\* UnicodeString::insert(index, text)
insert(sb, index, text) ==
    Sub(sb, 0, index) \o text \o Sub(sb, index, Len(sb) - index)

RECURSIVE DoubleQuotes(_)
DoubleQuotes(t) ==
    IF t = << >> THEN << >>
    ELSE (IF Head(t) = "'" THEN <<"'", "'">> ELSE <<Head(t)>>) \o DoubleQuotes(Tail(t))

\* AffixUtils::escape: a lone quote is doubled; a literal holding a quote is
\* wrapped in quotes, each quote of it doubled
escape(u) ==
    LET t == chars(u)
    IN  IF t = <<"'">> THEN <<"'", "'">>
        ELSE IF \E k \in 1..Len(t) : t[k] = "'"
        THEN <<"'">> \o DoubleQuotes(t) \o <<"'">>
        ELSE t

\* kFallbackPaddingString
kFallbackPaddingString == <<" ">>

\* PatternStringUtils::escapePaddingString: the text it inserts at startIndex
EscapedPaddingString(paddingString) ==
    LET input == IF length(paddingString) = 0 THEN kFallbackPaddingString
                 ELSE paddingString
    IN  IF Len(input) = 1
        THEN IF input = <<"'">> THEN <<"'", "'">> ELSE input
        ELSE <<"'">> \o DoubleQuotes(input) \o <<"'">>

\* int dosMax
dosMax == 100

RECURSIVE DecimalDigits(_)
DecimalDigits(n) ==
    IF n < 10 THEN <<Digits[n + 1]>>
    ELSE Append(DecimalDigits(n \div 10), Digits[(n % 10) + 1])

\* roundingutils::doubleFractionLength
doubleFractionLength(q) == IF q.scale < 0 THEN -q.scale ELSE 0

\* the plain string of the rounding interval scaled to an integer
IncrementDigits(q) ==
    IF q.scale > 0 THEN DecimalDigits(q.mant) \o Repeat("0", q.scale)
    ELSE DecimalDigits(q.mant)

\* "Figure out the grouping sizes": grouping, grouping1, grouping2
SerializedGrouping(groupingSize, firstGroupingSize) ==
    IF groupingSize # uprv_min(dosMax, -1) /\ firstGroupingSize # uprv_min(dosMax, -1)
       /\ groupingSize # firstGroupingSize
    THEN [grouping |-> groupingSize, grouping1 |-> groupingSize,
          grouping2 |-> firstGroupingSize]
    ELSE IF groupingSize # uprv_min(dosMax, -1)
    THEN [grouping |-> groupingSize, grouping1 |-> 0, grouping2 |-> groupingSize]
    ELSE IF firstGroupingSize # uprv_min(dosMax, -1)
    THEN [grouping |-> groupingSize, grouping1 |-> 0, grouping2 |-> firstGroupingSize]
    ELSE [grouping |-> 0, grouping1 |-> 0, grouping2 |-> 0]

\* "Figure out the digits we need to put in the pattern": digitsString and
\* digitsStringScale
SerializedDigits(props) ==
    LET minInt == uprv_max(uprv_min(props.minimumIntegerDigits, dosMax), 0)
        minFrac == uprv_max(uprv_min(props.minimumFractionDigits, dosMax), 0)
        minSig == uprv_min(props.minimumSignificantDigits, dosMax)
        maxSig == uprv_min(props.maximumSignificantDigits, dosMax)
        roundingInterval == props.roundingIncrement
        ats == Repeat("@", minSig)
        base == IF maxSig # uprv_min(dosMax, -1)
                THEN ats \o Repeat("#", maxSig - Len(ats))
                ELSE IF ~isZero(roundingInterval)
                THEN IncrementDigits(roundingInterval)
                ELSE << >>
        scale == IF maxSig = uprv_min(dosMax, -1) /\ ~isZero(roundingInterval)
                 THEN -doubleFractionLength(roundingInterval)
                 ELSE 0
        withInt == Repeat("0", minInt - (Len(base) + scale)) \o base
        more == uprv_max(minFrac + scale, 0)
    IN  [digitsString |-> withInt \o Repeat("0", more),
         digitsStringScale |-> scale - more]

\* the body of the loop "Write the digits to the string builder" at one
\* magnitude: the text it appends
WriteDigit(magnitude, mN, d, g, alwaysShowDecimal) ==
    LET di == Len(d.digitsString) + d.digitsStringScale - magnitude - 1
        digit == IF di < 0 \/ di >= Len(d.digitsString) THEN "#"
                 ELSE d.digitsString[di + 1]
        mark == IF magnitude > g.grouping2 /\ g.grouping > 0
                   /\ (magnitude - g.grouping2) % g.grouping = 0
                THEN <<",">>
                ELSE IF magnitude > 0 /\ magnitude = g.grouping2 THEN <<",">>
                ELSE IF magnitude = 0 /\ (alwaysShowDecimal \/ mN < 0) THEN <<".">>
                ELSE << >>
    IN  <<digit>> \o mark

\* the loop "for (int magnitude = m0; magnitude >= mN; magnitude--)" over the
\* magnitudes from hi down to lo: its iterations append one after another
RECURSIVE WriteDigits(_, _, _, _, _, _)
WriteDigits(hi, lo, mN, d, g, alwaysShowDecimal) ==
    IF hi < lo THEN << >>
    ELSE IF hi = lo THEN WriteDigit(hi, mN, d, g, alwaysShowDecimal)
    ELSE LET mid == lo + ((hi - lo + 1) \div 2)
         IN  WriteDigits(hi, mid, mN, d, g, alwaysShowDecimal)
                 \o WriteDigits(mid - 1, lo, mN, d, g, alwaysShowDecimal)

\* the digit format: the text between the prefix and the exponent
SerializedNumber(props) ==
    LET groupingSize == uprv_min(props.secondaryGroupingSize, dosMax)
        firstGroupingSize == uprv_min(props.groupingSize, dosMax)
        maxInt == uprv_min(props.maximumIntegerDigits, dosMax)
        maxFrac == uprv_min(props.maximumFractionDigits, dosMax)
        g == SerializedGrouping(groupingSize, firstGroupingSize)
        groupingLength == g.grouping1 + g.grouping2 + 1
        d == SerializedDigits(props)
        m00 == uprv_max(groupingLength, Len(d.digitsString) + d.digitsStringScale)
        m0 == IF maxInt # dosMax THEN uprv_max(maxInt, m00) - 1 ELSE m00 - 1
        mN == IF maxFrac # dosMax THEN uprv_min(-maxFrac, d.digitsStringScale)
              ELSE d.digitsStringScale
    IN  WriteDigits(m0, mN, mN, d, g, props.decimalSeparatorAlwaysShown)

\* SerializedExponent without the clamp of the exponent digits
SerializedExponent_unclamped(props) ==
    LET exponentDigits == props.minimumExponentDigits
    IN  IF exponentDigits # uprv_min(dosMax, -1)
        THEN <<"E">> \o (IF props.exponentSignAlwaysShown THEN <<"+">> ELSE << >>)
                     \o Repeat("0", exponentDigits)
        ELSE << >>

\* "Exponential notation"
SerializedExponent(props) ==
    LET exponentDigits == uprv_min(props.minimumExponentDigits, dosMax)
    IN  IF exponentDigits # uprv_min(dosMax, -1)
        THEN <<"E">> \o (IF props.exponentSignAlwaysShown THEN <<"+">> ELSE << >>)
                     \o Repeat("0", exponentDigits)
        ELSE << >>

\* the string builder and the two positions after "Suffixes"
SerializedPositive(props) ==
    LET prefix == chars(props.positivePrefixPattern) \o escape(props.positivePrefix)
        body == SerializedNumber(props) \o SerializedExponent(props)
        suffix == chars(props.positiveSuffixPattern) \o escape(props.positiveSuffix)
    IN  [sb |-> prefix \o body \o suffix,
         afterPrefixPos |-> Len(prefix),
         beforeSuffixPos |-> Len(prefix) + Len(body)]

\* "Resolve Padding" with the two positions left where they were when the
\* pad specifier is inserted after the prefix
ResolvePadding_positionsKept(props, b) ==
    LET paddingWidth == uprv_min(props.formatWidth, dosMax)
        paddingLocation == props.padPosition
        hashes == uprv_max(paddingWidth - Len(b.sb), 0)
        filled == [sb |-> insert(b.sb, b.afterPrefixPos, Repeat("#", hashes)),
                   afterPrefixPos |-> b.afterPrefixPos,
                   beforeSuffixPos |-> b.beforeSuffixPos + hashes]
        pad == EscapedPaddingString(props.padString)
        addedLength == Len(pad)
    IN  IF paddingWidth # -1 /\ paddingLocation # Null
        THEN CASE paddingLocation = UNUM_PAD_BEFORE_PREFIX ->
                    [sb |-> insert(insert(filled.sb, 0, pad), 0, <<"*">>),
                     afterPrefixPos |-> filled.afterPrefixPos + addedLength + 1,
                     beforeSuffixPos |-> filled.beforeSuffixPos + addedLength + 1]
               [] paddingLocation = UNUM_PAD_AFTER_PREFIX ->
                    [filled EXCEPT
                        !.sb = insert(insert(filled.sb, filled.afterPrefixPos, pad),
                                      filled.afterPrefixPos, <<"*">>)]
               [] paddingLocation = UNUM_PAD_BEFORE_SUFFIX ->
                    [filled EXCEPT
                        !.sb = insert(insert(filled.sb, filled.beforeSuffixPos, pad),
                                      filled.beforeSuffixPos, <<"*">>)]
               [] OTHER ->
                    [filled EXCEPT !.sb = filled.sb \o <<"*">> \o pad]
        ELSE b

\* "Resolve Padding"
ResolvePadding(props, b) ==
    LET paddingWidth == uprv_min(props.formatWidth, dosMax)
        paddingLocation == props.padPosition
        hashes == uprv_max(paddingWidth - Len(b.sb), 0)
        filled == [sb |-> insert(b.sb, b.afterPrefixPos, Repeat("#", hashes)),
                   afterPrefixPos |-> b.afterPrefixPos,
                   beforeSuffixPos |-> b.beforeSuffixPos + hashes]
        pad == EscapedPaddingString(props.padString)
        addedLength == Len(pad)
    IN  IF paddingWidth # -1 /\ paddingLocation # Null
        THEN CASE paddingLocation = UNUM_PAD_BEFORE_PREFIX ->
                    [sb |-> insert(insert(filled.sb, 0, pad), 0, <<"*">>),
                     afterPrefixPos |-> filled.afterPrefixPos + addedLength + 1,
                     beforeSuffixPos |-> filled.beforeSuffixPos + addedLength + 1]
               [] paddingLocation = UNUM_PAD_AFTER_PREFIX ->
                    [sb |-> insert(insert(filled.sb, filled.afterPrefixPos, pad),
                                   filled.afterPrefixPos, <<"*">>),
                     afterPrefixPos |-> filled.afterPrefixPos + addedLength + 1,
                     beforeSuffixPos |-> filled.beforeSuffixPos + addedLength + 1]
               [] paddingLocation = UNUM_PAD_BEFORE_SUFFIX ->
                    [filled EXCEPT
                        !.sb = insert(insert(filled.sb, filled.beforeSuffixPos, pad),
                                      filled.beforeSuffixPos, <<"*">>)]
               [] OTHER ->
                    [filled EXCEPT !.sb = filled.sb \o <<"*">> \o pad]
        ELSE b

\* the condition without its case of a suffix pattern set on its own
WritesNegative_prefixOnly(props) ==
    LET np == props.negativePrefix
        npp == props.negativePrefixPattern
        ns == props.negativeSuffix
        nsp == props.negativeSuffixPattern
    IN  \/ ~isBogus(np)
        \/ ~isBogus(ns)
        \/ (~isBogus(npp) /\ (length(npp) # 1 \/ npp[1] # "-" \/ length(nsp) # 0))

\* the condition of "Negative affixes"
WritesNegative(props) ==
    LET np == props.negativePrefix
        npp == props.negativePrefixPattern
        ns == props.negativeSuffix
        nsp == props.negativeSuffixPattern
    IN  \/ ~isBogus(np)
        \/ ~isBogus(ns)
        \/ (isBogus(npp) /\ ~isBogus(nsp))
        \/ (~isBogus(npp) /\ (length(npp) # 1 \/ npp[1] # "-" \/ length(nsp) # 0))

\* "Negative affixes"
NegativeAffixes(props, b) ==
    IF WritesNegative(props)
    THEN b.sb \o <<";">> \o chars(props.negativePrefixPattern)
              \o escape(props.negativePrefix)
              \o Sub(b.sb, b.afterPrefixPos, b.beforeSuffixPos - b.afterPrefixPos)
              \o chars(props.negativeSuffixPattern) \o escape(props.negativeSuffix)
    ELSE b.sb

\* PatternStringUtils::propertiesToPatternString
PropertiesToPatternString(props) ==
    NegativeAffixes(props, ResolvePadding(props, SerializedPositive(props)))

---------------------------------------------------------------------------
(* The localized-symbol converter, one iteration of its scan per step *)

\* the character U+2019 that replaces a quote inside a localized symbol
RightQuote == "u2019"

\* static constexpr int32_t LEN
LEN == 21

\* the standard side of the table, in the order convertLocalized fills it
StandardSymbols ==
    <<"%", PerMille, ".", ",", "-", "+", ";", "@", "E", "*", "#">> \o Digits

\* a localized symbol taken as it is given
WithoutQuotes_kept(t) == t

\* findAndReplace(u'\x27', u'\x2019') on one localized symbol
WithoutQuotes(t) == [k \in 1..Len(t) |-> IF t[k] = "'" THEN RightQuote ELSE t[k]]

\* table[i]: the pair <<text to find, text to write>> of the direction
TablePair(symbols, toLocalized, i) ==
    IF toLocalized THEN <<<<StandardSymbols[i]>>, WithoutQuotes(symbols[i])>>
    ELSE <<WithoutQuotes(symbols[i]), <<StandardSymbols[i]>>>>

\* UnicodeString::tempSubString(start, len): cut at the end of the text
tempSubString(t, start, len) == Sub(t, start, uprv_min(len, Len(t) - start))

\* a call of convertLocalized that has not started
IdleConv ==
    [input |-> << >>, symbols |-> << >>, toLocalized |-> TRUE, offset |-> 0,
     state |-> 0, result |-> << >>, status |-> U_ZERO_ERROR, pc |-> "idle",
     pass |-> 0, first |-> << >>]

\* the call convertLocalized(input, symbols, toLocalized) at its first iteration
EnterConvert(input, symbols, toLocalized, pass, first) ==
    [input |-> input, symbols |-> symbols, toLocalized |-> toLocalized, offset |-> 0,
     state |-> 0, result |-> << >>, status |-> U_ZERO_ERROR, pc |-> "scan",
     pass |-> pass, first |-> first]

\* QuoteShift with the quote that follows a closed literal written once
QuoteShift_single(c) ==
    CASE c.state = 0 -> [c EXCEPT !.result = Append(@, "'"), !.state = 1]
      [] c.state = 1 -> [c EXCEPT !.result = Append(@, "'"), !.state = 0]
      [] c.state = 2 -> [c EXCEPT !.state = 3]
      [] c.state = 3 -> [c EXCEPT !.result = Append(@, "'"), !.state = 1]
      [] c.state = 4 -> [c EXCEPT !.state = 5]
      [] OTHER -> [c EXCEPT !.result = @ \o <<"'", "'">>, !.state = 4]

\* "Handle a quote character (state shift)"
QuoteShift(c) ==
    CASE c.state = 0 -> [c EXCEPT !.result = Append(@, "'"), !.state = 1]
      [] c.state = 1 -> [c EXCEPT !.result = Append(@, "'"), !.state = 0]
      [] c.state = 2 -> [c EXCEPT !.state = 3]
      [] c.state = 3 -> [c EXCEPT !.result = @ \o <<"'", "'">>, !.state = 1]
      [] c.state = 4 -> [c EXCEPT !.state = 5]
      [] OTHER -> [c EXCEPT !.result = @ \o <<"'", "'">>, !.state = 4]

\* the table entries whose text to find stands at the offset
Replaceable(c) ==
    {i \in 1..LEN :
        LET pair == TablePair(c.symbols, c.toLocalized, i)
        IN  tempSubString(c.input, c.offset, Len(pair[1])) = pair[1]}

\* the table entries whose text to write stands at the offset
NeedsQuote(c) ==
    {i \in 1..LEN :
        LET pair == TablePair(c.symbols, c.toLocalized, i)
        IN  tempSubString(c.input, c.offset, Len(pair[2])) = pair[2]}

\* the entry the loop "for (auto& pair : table)" meets first
FirstOf(S) == CHOOSE i \in S : \A j \in S : i <= j

\* the body of the scan loop outside a quote character, in states 0, 3 and 4
Substitute(c) ==
    LET ch == c.input[c.offset + 1]
        closing == IF c.state \in {3, 4} THEN <<"'">> ELSE << >>
    IN  IF Replaceable(c) # {}
        THEN LET pair == TablePair(c.symbols, c.toLocalized, FirstOf(Replaceable(c)))
             IN  [c EXCEPT !.offset = @ + Len(pair[1]) - 1,
                           !.result = @ \o closing \o pair[2],
                           !.state = 0]
        ELSE IF NeedsQuote(c) # {}
        THEN [c EXCEPT !.result = @ \o (IF c.state = 0 THEN <<"'">> ELSE << >>) \o <<ch>>,
                       !.state = IF c.state = 0 THEN 4 ELSE @]
        ELSE [c EXCEPT !.result = @ \o closing \o <<ch>>, !.state = 0]

\* one iteration of "for (int offset = 0; offset < input.length(); offset++)"
ScanIteration(c) ==
    LET ch == c.input[c.offset + 1]
        body == IF ch = "'" THEN QuoteShift(c)
                ELSE IF c.state \in {0, 3, 4} THEN Substitute(c)
                ELSE [c EXCEPT !.result = Append(@, ch), !.state = 2]
    IN  [body EXCEPT !.offset = @ + 1]

\* "Resolve final quotes" and the return
ResolveFinalQuotes(c) ==
    LET closed == IF c.state \in {3, 4}
                  THEN [c EXCEPT !.result = Append(@, "'"), !.state = 0]
                  ELSE c
    IN  [closed EXCEPT !.status = IF closed.state # 0 THEN U_PATTERN_SYNTAX_ERROR ELSE @,
                       !.pc = "returned"]

convertLocalized ==
    /\ conv.pc = "scan"
    /\ Len(conv.result) <= MaxResult
    /\ conv' = IF conv.offset < Len(conv.input) THEN ScanIteration(conv)
               ELSE ResolveFinalQuotes(conv)
    /\ UNCHANGED <<parserVars, rendered>>

\* the localized text is converted back to the standard syntax
convertBack ==
    /\ conv.pc = "returned"
    /\ conv.pass = 1
    /\ ~U_FAILURE(conv.status)
    /\ conv' = EnterConvert(conv.result, conv.symbols, FALSE, 2, conv.first)
    /\ UNCHANGED <<parserVars, rendered>>

\* the symbols of a locale that writes "," for the decimal separator and "."
\* for the grouping separator, and every other symbol as the standard does
SwappedSymbols ==
    [i \in 1..LEN |-> IF i = 3 THEN <<",">>
                      ELSE IF i = 4 THEN <<".">>
                      ELSE <<StandardSymbols[i]>>]

---------------------------------------------------------------------------
(* The rendering of the prefix or suffix of a parsed pattern for a sign    *)

\* the UNumberSignDisplay values: the five the function names, and the others
UNumberSignDisplay ==
    {"UNUM_SIGN_AUTO", "UNUM_SIGN_ALWAYS", "UNUM_SIGN_NEVER", "UNUM_SIGN_ACCOUNTING",
     "UNUM_SIGN_ACCOUNTING_ALWAYS", "UNUM_SIGN_EXCEPT_ZERO",
     "UNUM_SIGN_ACCOUNTING_EXCEPT_ZERO"}

\* StandardPlural::Form: COUNT stands for "no plural form", ONE for any form
StandardPlural == {"COUNT", "ONE"}

\* no call of patternInfoToStringBuilder yet
NotRendered ==
    [called |-> FALSE, isPrefix |-> FALSE, signum |-> 0, signDisplay |-> "UNUM_SIGN_AUTO",
     plural |-> "COUNT", perMilleReplacesPercent |-> FALSE, output |-> << >>]

\* ParsedPatternInfo::getEndpoints
getEndpoints(i, flags) ==
    IF flags.negative /\ flags.padding THEN i.negative.paddingEndpoints
    ELSE IF flags.padding THEN i.positive.paddingEndpoints
    ELSE IF flags.prefix /\ flags.negative THEN i.negative.prefixEndpoints
    ELSE IF flags.prefix THEN i.positive.prefixEndpoints
    ELSE IF flags.negative THEN i.negative.suffixEndpoints
    ELSE i.positive.suffixEndpoints

\* ParsedPatternInfo::getLengthFromEndpoints
getLengthFromEndpoints(endpoints) == endpoints.end - endpoints.start

\* ParsedPatternInfo::length(flags)
affixLength(i, flags) == getLengthFromEndpoints(getEndpoints(i, flags))

\* ParsedPatternInfo::charAt(flags, index)
charAt(i, flags, index) == i.pattern[getEndpoints(i, flags).start + index + 1]

\* plusReplacesMinusSign without the test of the positive subpattern's '+'
plusReplacesMinusSign_anyPositive(i, signum, signDisplay) ==
    /\ signum # -1
    /\ \/ signDisplay \in {"UNUM_SIGN_ALWAYS", "UNUM_SIGN_ACCOUNTING_ALWAYS"}
       \/ /\ signum = 1
          /\ signDisplay \in {"UNUM_SIGN_EXCEPT_ZERO", "UNUM_SIGN_ACCOUNTING_EXCEPT_ZERO"}

\* "Should the output render '+' where '-' would normally appear in the pattern"
plusReplacesMinusSign(i, signum, signDisplay) ==
    /\ signum # -1
    /\ \/ signDisplay \in {"UNUM_SIGN_ALWAYS", "UNUM_SIGN_ACCOUNTING_ALWAYS"}
       \/ /\ signum = 1
          /\ signDisplay \in {"UNUM_SIGN_EXCEPT_ZERO", "UNUM_SIGN_ACCOUNTING_EXCEPT_ZERO"}
    /\ i.positive.hasPlusSign = FALSE

\* "Should we use the affix from the negative subpattern"
useNegativeAffixPattern(i, signum, signDisplay) ==
    /\ i.fHasNegativeSubpattern
    /\ \/ signum = -1
       \/ i.negative.hasMinusSign /\ plusReplacesMinusSign(i, signum, signDisplay)

\* "Resolve the flags for the affix pattern"
AffixFlags(i, isPrefix, signum, signDisplay, plural) ==
    [negative |-> useNegativeAffixPattern(i, signum, signDisplay),
     prefix |-> isPrefix,
     padding |-> FALSE,
     plural |-> IF plural # "COUNT" THEN plural ELSE "none"]

\* prependSign for suffixes as for prefixes
prependSign_anyAffix(i, isPrefix, signum, signDisplay) ==
    IF useNegativeAffixPattern(i, signum, signDisplay) THEN FALSE
    ELSE IF signum = -1 THEN signDisplay # "UNUM_SIGN_NEVER"
    ELSE plusReplacesMinusSign(i, signum, signDisplay)

\* "Should we prepend a sign to the pattern"
prependSign(i, isPrefix, signum, signDisplay) ==
    IF ~isPrefix \/ useNegativeAffixPattern(i, signum, signDisplay) THEN FALSE
    ELSE IF signum = -1 THEN signDisplay # "UNUM_SIGN_NEVER"
    ELSE plusReplacesMinusSign(i, signum, signDisplay)

\* the output of patternInfoToStringBuilder
PatternInfoToStringBuilder(i, isPrefix, signum, signDisplay, plural, perMilleReplacesPercent) ==
    LET flags == AffixFlags(i, isPrefix, signum, signDisplay, plural)
        sign == prependSign(i, isPrefix, signum, signDisplay)
        len == affixLength(i, flags) + (IF sign THEN 1 ELSE 0)
        candidate(index) ==
            IF sign /\ index = 0 THEN "-"
            ELSE IF sign THEN charAt(i, flags, index - 1)
            ELSE charAt(i, flags, index)
        replaced(c) ==
            IF plusReplacesMinusSign(i, signum, signDisplay) /\ c = "-" THEN "+"
            ELSE IF perMilleReplacesPercent /\ c = "%" THEN PerMille
            ELSE c
    IN  [k \in 1..len |-> replaced(candidate(k - 1))]

\* PatternStringUtils::patternInfoToStringBuilder on the pattern just parsed
patternInfoToStringBuilder ==
    /\ pc = "parsed"
    /\ ~U_FAILURE(status)
    /\ \E isPrefix \in BOOLEAN, signum \in {-1, 0, 1}, signDisplay \in UNumberSignDisplay,
          plural \in StandardPlural, perMilleReplacesPercent \in BOOLEAN :
           rendered' =
               [called |-> TRUE, isPrefix |-> isPrefix, signum |-> signum,
                signDisplay |-> signDisplay, plural |-> plural,
                perMilleReplacesPercent |-> perMilleReplacesPercent,
                output |-> PatternInfoToStringBuilder(info, isPrefix, signum, signDisplay,
                                                      plural, perMilleReplacesPercent)]
    /\ pc' = "rendered"
    /\ UNCHANGED <<pattern, ignoreRounding, properties, info, status, stage, ret,
                   zeroCounter, round, trip, conv>>

---------------------------------------------------------------------------
(* The pipeline: a pattern is parsed into new properties, the properties   *)
(* are serialized, and the text is parsed and serialized once more.        *)

propertiesToPatternString ==
    /\ pc \in {"returned", "propertiesToPatternString"}
    /\ ~U_FAILURE(status)
    /\ trip' = Append(trip, [properties |-> properties,
                             text |-> PropertiesToPatternString(properties)])
    /\ pc' = "serialized"
    /\ UNCHANGED <<pattern, ignoreRounding, properties, info, status, stage, ret,
                   zeroCounter, round, conv, rendered>>

\* PatternParser::parseToProperties on the text just serialized
parseToProperties ==
    /\ pc = "serialized"
    /\ round = 1
    /\ pattern' = trip[Len(trip)].text
    /\ properties' = Clear
    /\ info' = ParsedPatternInfo
    /\ status' = U_ZERO_ERROR
    /\ pc' = "parseToExistingPropertiesImpl"
    /\ stage' = 0
    /\ ret' = "none"
    /\ zeroCounter' = 0
    /\ round' = round + 1
    /\ UNCHANGED <<ignoreRounding, trip, conv, rendered>>

\* the characters of the pattern texts
Alphabet ==
    {"#", "0", "5", "@", ",", ".", ";", "*", "'", "E", "+", "-", "%", PerMille,
     Currency, "x"}

\* the characters of the longer numeric bodies
BodyAlphabet == {"#", "0", "@", ",", "."}

\* the patterns of the specification's examples
Examples ==
    {<<"#", ",", "#", "#", "0", ".", "0", "0">>,
     <<"@", "@", "#", "#">>,
     <<"0", ".", "0", "%">>,
     <<"#", ",", "#", "#", "0", ";", "(", "#", ",", "#", "#", "0", ")">>,
     <<"*", "x", "#", ",", "#", "#", "0">>,
     <<"#", "0">>,
     <<"0", "#">>,
     <<"#", ",", "#", "0", "0", ",", "0">>}

Patterns == TextsUpTo(Alphabet, MaxLen) \cup TextsUpTo(BodyAlphabet, MaxBody) \cup Examples

Start(p, policy, props) ==
    /\ pattern = p
    /\ ignoreRounding = policy
    /\ properties = props
    /\ info = ParsedPatternInfo
    /\ status = U_ZERO_ERROR
    /\ pc = "parseToExistingPropertiesImpl"
    /\ stage = 0
    /\ ret = "none"
    /\ zeroCounter = 0
    /\ round = 1
    /\ trip = << >>

Init ==
    /\ \E p \in Patterns, policy \in IgnoreRounding : Start(p, policy, Clear)
    /\ conv = IdleConv
    /\ rendered = NotRendered

Next ==
    \/ parseToExistingPropertiesImpl
    \/ consumePattern
    \/ consumeSubpattern
    \/ consumePadding
    \/ consumeAffix
    \/ consumeLiteral
    \/ consumeFormat
    \/ consumeIntegerFormat
    \/ consumeFractionFormat
    \/ consumeExponent
    \/ patternInfoToProperties
    \/ propertiesToPatternString
    \/ parseToProperties

Spec == Init /\ [][Next]_vars

---------------------------------------------------------------------------
(* A pattern is parsed into properties that a caller has already set.      *)

\* properties with every kind of field set to a value of the caller
Existing ==
    [Clear EXCEPT !.groupingSize = 2,
                  !.groupingUsed = FALSE,
                  !.secondaryGroupingSize = 4,
                  !.minimumIntegerDigits = 7,
                  !.maximumIntegerDigits = 9,
                  !.minimumFractionDigits = 6,
                  !.maximumFractionDigits = 8,
                  !.minimumSignificantDigits = 5,
                  !.maximumSignificantDigits = 6,
                  !.roundingIncrement = [mant |-> 25, scale |-> -2],
                  !.decimalSeparatorAlwaysShown = TRUE,
                  !.exponentSignAlwaysShown = TRUE,
                  !.minimumExponentDigits = 3,
                  !.formatWidth = 12,
                  !.padString = <<"y">>,
                  !.padPosition = UNUM_PAD_AFTER_SUFFIX,
                  !.positivePrefixPattern = <<"a">>,
                  !.positiveSuffixPattern = <<"b">>,
                  !.negativePrefixPattern = <<"c">>,
                  !.negativeSuffixPattern = <<"d">>,
                  !.positivePrefix = <<"e">>,
                  !.magnitudeMultiplier = 3]

InitExisting ==
    /\ \E p \in Patterns : Start(p, IGNORE_ROUNDING_NEVER, Existing)
    /\ conv = IdleConv
    /\ rendered = NotRendered

SpecExisting == InitExisting /\ [][Next]_vars

---------------------------------------------------------------------------
(* Longer patterns over the characters of pad specifiers, quoted literals  *)
(* and the pattern separator.                                              *)

PadAlphabet == {"*", "'", "x", "0", ";"}

InitPadding ==
    /\ \E p \in TextsUpTo(PadAlphabet, MaxPad) \cup Examples :
           Start(p, IGNORE_ROUNDING_NEVER, Clear)
    /\ conv = IdleConv
    /\ rendered = NotRendered

SpecPadding == InitPadding /\ [][Next]_vars

\* a step of parseToExistingPropertiesImpl or of a function it calls
ParseStep ==
    \/ parseToExistingPropertiesImpl
    \/ consumePattern
    \/ consumeSubpattern
    \/ consumePadding
    \/ consumeAffix
    \/ consumeLiteral
    \/ consumeFormat
    \/ consumeIntegerFormat
    \/ consumeFractionFormat
    \/ consumeExponent
    \/ patternInfoToProperties

\* the same calls, a parse that is entered being run on: the parser is
\* sequential code that no other thread holds up
SpecTermination == InitPadding /\ [][Next]_vars /\ WF_vars(ParseStep)

---------------------------------------------------------------------------
(* Longer patterns over the characters of a numeric body with an exponent. *)

ExponentAlphabet == {"0", "#", ",", ".", "E", ";"}

InitExponent ==
    /\ \E p \in TextsUpTo(ExponentAlphabet, MaxExp) \cup Examples :
           Start(p, IGNORE_ROUNDING_NEVER, Clear)
    /\ conv = IdleConv
    /\ rendered = NotRendered

SpecExponent == InitExponent /\ [][Next]_vars

---------------------------------------------------------------------------
(* Longer patterns in scientific notation, with significant digits and     *)
(* exponent signs.                                                         *)

ScientificAlphabet == {"0", "#", "@", "E", "+"}

InitScientific ==
    /\ \E p \in TextsUpTo(ScientificAlphabet, MaxSci) \cup Examples :
           Start(p, IGNORE_ROUNDING_NEVER, Clear)
    /\ conv = IdleConv
    /\ rendered = NotRendered

SpecScientific == InitScientific /\ [][Next]_vars

---------------------------------------------------------------------------
(* The serializer on properties whose size fields a caller has set beyond  *)
(* dosMax.                                                                 *)

SizeFields ==
    {"groupingSize", "secondaryGroupingSize", "formatWidth",
     "minimumIntegerDigits", "maximumIntegerDigits",
     "minimumFractionDigits", "maximumFractionDigits",
     "minimumSignificantDigits", "maximumSignificantDigits",
     "minimumExponentDigits"}

\* the values beyond dosMax that the size fields take
Overshoot == (dosMax + 1)..(dosMax + MaxOver)

\* the properties the size fields are set in
GivenProperties ==
    {Clear,
     [Clear EXCEPT !.groupingSize = 3, !.minimumIntegerDigits = 1,
                   !.minimumFractionDigits = 2, !.maximumFractionDigits = 2,
                   !.positivePrefixPattern = << >>, !.positiveSuffixPattern = <<"%">>],
     [Clear EXCEPT !.groupingSize = 3, !.secondaryGroupingSize = 2,
                   !.minimumIntegerDigits = 1,
                   !.roundingIncrement = [mant |-> 5, scale |-> -2],
                   !.minimumFractionDigits = 2, !.maximumFractionDigits = 2,
                   !.negativePrefixPattern = <<"(">>, !.negativeSuffixPattern = <<")">>],
     [Clear EXCEPT !.minimumSignificantDigits = 2, !.maximumSignificantDigits = 4,
                   !.positivePrefixPattern = <<"'", "#", "'">>],
     [Clear EXCEPT !.minimumIntegerDigits = 1, !.maximumIntegerDigits = 3,
                   !.minimumFractionDigits = 1, !.maximumFractionDigits = 2,
                   !.minimumExponentDigits = 1, !.exponentSignAlwaysShown = TRUE],
     [Clear EXCEPT !.groupingSize = 3, !.minimumIntegerDigits = 1,
                   !.formatWidth = 8, !.padString = <<"x">>,
                   !.padPosition = UNUM_PAD_BEFORE_SUFFIX,
                   !.positivePrefixPattern = <<Currency>>,
                   !.positiveSuffixPattern = <<"x">>]}

InitClamp ==
    /\ \E given \in GivenProperties, f \in SizeFields, g \in SizeFields,
          v \in Overshoot, w \in Overshoot :
           properties = [[given EXCEPT ![f] = v] EXCEPT ![g] = w]
    /\ pattern = << >>
    /\ ignoreRounding = IGNORE_ROUNDING_NEVER
    /\ info = ParsedPatternInfo
    /\ status = U_ZERO_ERROR
    /\ pc = "propertiesToPatternString"
    /\ stage = 0
    /\ ret = "none"
    /\ zeroCounter = 0
    /\ round = 1
    /\ trip = << >>
    /\ conv = IdleConv
    /\ rendered = NotRendered

SpecClamp == InitClamp /\ [][Next]_vars

---------------------------------------------------------------------------
(* The serializer on properties whose affix patterns, literal affixes and  *)
(* padding a caller has set.                                               *)

\* the numeric fields of the given properties
GivenNumbers ==
    {[Clear EXCEPT !.minimumIntegerDigits = 1],
     [Clear EXCEPT !.groupingSize = 3, !.minimumIntegerDigits = 1,
                   !.minimumFractionDigits = 1, !.maximumFractionDigits = 2,
                   !.minimumExponentDigits = 1]}

\* formatWidth, padPosition and padString of the given properties
GivenPadding ==
    {<<-1, Null, Bogus>>}
        \cup {<<MaxWidth, where, string>> :
                where \in {UNUM_PAD_BEFORE_PREFIX, UNUM_PAD_AFTER_PREFIX,
                           UNUM_PAD_BEFORE_SUFFIX, UNUM_PAD_AFTER_SUFFIX},
                string \in {<<"x">>, <<"'">>, <<"x", "'">>}}

InitAffixes ==
    /\ \E given \in GivenNumbers, padding \in GivenPadding,
          ppp \in {Bogus, <<"x">>}, pp \in {Bogus, <<"'">>, <<"y">>},
          psp \in {Bogus, <<"%">>}, ps \in {Bogus, <<"y">>},
          npp \in {Bogus, << >>, <<"-">>, <<"x">>}, np \in {Bogus, <<"y">>},
          nsp \in {Bogus, << >>, <<"x">>}, ns \in {Bogus, << >>} :
           properties = [given EXCEPT !.formatWidth = padding[1],
                                      !.padPosition = padding[2],
                                      !.padString = padding[3],
                                      !.positivePrefixPattern = ppp,
                                      !.positivePrefix = pp,
                                      !.positiveSuffixPattern = psp,
                                      !.positiveSuffix = ps,
                                      !.negativePrefixPattern = npp,
                                      !.negativePrefix = np,
                                      !.negativeSuffixPattern = nsp,
                                      !.negativeSuffix = ns]
    /\ pattern = << >>
    /\ ignoreRounding = IGNORE_ROUNDING_NEVER
    /\ info = ParsedPatternInfo
    /\ status = U_ZERO_ERROR
    /\ pc = "propertiesToPatternString"
    /\ stage = 0
    /\ ret = "none"
    /\ zeroCounter = 0
    /\ round = 1
    /\ trip = << >>
    /\ conv = IdleConv
    /\ rendered = NotRendered

\* the serializer is the one operation called
NextAffixes == propertiesToPatternString

SpecAffixes == InitAffixes /\ [][NextAffixes]_vars

---------------------------------------------------------------------------
(* The converter on its own: a standard text is converted to the localized *)
(* syntax and back.                                                        *)

\* the characters of the texts converted
TextAlphabet == {"'", ".", ",", "x", "#"}

Texts == TextsUpTo(TextAlphabet, MaxText)

InitConvert ==
    /\ Start(<< >>, IGNORE_ROUNDING_NEVER, Clear)
    /\ \E t \in Texts : conv = EnterConvert(t, SwappedSymbols, TRUE, 1, t)
    /\ rendered = NotRendered

NextConvert ==
    \/ convertLocalized
    \/ convertBack

SpecConvert == InitConvert /\ [][NextConvert]_vars

---------------------------------------------------------------------------
(* The converter called once, in either direction, with the symbols of     *)
(* several locales.                                                        *)

\* the symbols of a locale that writes the text t for the symbol i and every
\* other symbol as the standard does
Localized(i, t) == [k \in 1..LEN |-> IF k = i THEN t ELSE <<StandardSymbols[k]>>]

\* symbols with the separators swapped, with a letter, with a letter and a
\* quote, with two characters that are standard symbols, with an empty text,
\* and with a digit symbol that begins with the decimal separator
SymbolTables ==
    {SwappedSymbols,
     Localized(3, <<"x">>),
     Localized(3, <<"x", "'">>),
     Localized(4, <<"#", "#">>),
     Localized(1, << >>),
     Localized(11, <<".", ".">>)}

InitSymbols ==
    /\ Start(<< >>, IGNORE_ROUNDING_NEVER, Clear)
    /\ \E t \in Texts, symbols \in SymbolTables, toLocalized \in BOOLEAN :
           conv = EnterConvert(t, symbols, toLocalized, 1, t)
    /\ rendered = NotRendered

NextSymbols == convertLocalized

SpecSymbols == InitSymbols /\ [][NextSymbols]_vars

---------------------------------------------------------------------------
(* A pattern is parsed by parseToPatternInfo and one of its affixes is     *)
(* rendered for a sign.                                                    *)

\* the characters of affixes with signs, quotes and a percent sign
AffixAlphabet == {"+", "-", "%", "'", "0", ";"}

\* a numeric body with a fraction and an exponent
ScientificBody == <<"0", ".", "0", "E", "0">>

\* PatternParser::parseToPatternInfo: the call
InitRender ==
    /\ \E p \in (TextsUpTo(AffixAlphabet, MaxAffix) \ {<< >>}) \cup {ScientificBody} :
           /\ pattern = p
           /\ info = ParsedPatternInfo
    /\ ignoreRounding = IGNORE_ROUNDING_NEVER
    /\ properties = Clear
    /\ status = U_ZERO_ERROR
    /\ pc = "consumePattern"
    /\ stage = 0
    /\ ret = "none"
    /\ zeroCounter = 0
    /\ round = 1
    /\ trip = << >>
    /\ conv = IdleConv
    /\ rendered = NotRendered

NextRender ==
    \/ consumePattern
    \/ consumeSubpattern
    \/ consumePadding
    \/ consumeAffix
    \/ consumeLiteral
    \/ consumeFormat
    \/ consumeIntegerFormat
    \/ consumeFractionFormat
    \/ consumeExponent
    \/ patternInfoToStringBuilder

SpecRender == InitRender /\ [][NextRender]_vars

---------------------------------------------------------------------------
(* The reading of a pattern text that the properties below speak of: the   *)
(* parts of a subpattern in their order (pad specifier, prefix, pad        *)
(* specifier, integer run, fraction, exponent, pad specifier, suffix, pad  *)
(* specifier), read off the text itself.                                   *)

RunSymbols == {"#", "@", ","} \cup DigitChars

FractionSymbols == {"#"} \cup DigitChars

Special == {"#", "@", ";", "*", ".", ","} \cup DigitChars

CharAt(s, k) == IF k >= 1 /\ k <= Len(s) THEN s[k] ELSE EOL

\* the position after the literal that starts at position k
LiteralEndOf(s, k) ==
    IF CharAt(s, k) = "'"
    THEN LET closing == {j \in (k + 1)..Len(s) : s[j] = "'"}
         IN  IF closing = {} THEN Len(s) + 1
             ELSE (CHOOSE j \in closing : \A m \in closing : j <= m) + 1
    ELSE uprv_min(k + 1, Len(s) + 1)

\* the position after a pad specifier at position k, or k when there is none
PadEndOf(s, k) == IF CharAt(s, k) = "*" THEN LiteralEndOf(s, k + 1) ELSE k

RECURSIVE AffixEndOf(_, _)
AffixEndOf(s, k) ==
    IF k > Len(s) \/ s[k] \in Special THEN k ELSE AffixEndOf(s, LiteralEndOf(s, k))

RECURSIVE RunEndOf(_, _, _)
RunEndOf(s, k, S) == IF CharAt(s, k) \in S THEN RunEndOf(s, k + 1, S) ELSE k

\* the parts of the subpattern that starts at position k of the text s
SubpatternText(s, k) ==
    LET a == PadEndOf(s, k)
        b == AffixEndOf(s, a)
        c == PadEndOf(s, b)
        d == RunEndOf(s, c, RunSymbols)
        e == IF CharAt(s, d) = "." THEN RunEndOf(s, d + 1, FractionSymbols) ELSE d
        f == IF CharAt(s, e) = "E"
             THEN RunEndOf(s, IF CharAt(s, e + 1) = "+" THEN e + 2 ELSE e + 1, {"0"})
             ELSE e
        g == PadEndOf(s, f)
        h == AffixEndOf(s, g)
    IN  [prefix |-> SubSeq(s, a, b - 1),
         integer |-> SubSeq(s, c, d - 1),
         start |-> c,
         fraction |-> SubSeq(s, d, e - 1),
         exponent |-> SubSeq(s, e, f - 1),
         body |-> SubSeq(s, c, f - 1),
         suffix |-> SubSeq(s, g, h - 1),
         pads |-> <<SubSeq(s, k, a - 1), SubSeq(s, b, c - 1), SubSeq(s, f, g - 1),
                    SubSeq(s, h, PadEndOf(s, h) - 1)>>,
         end |-> PadEndOf(s, h)]

PositiveText(s) == SubpatternText(s, 1)

\* an unquoted ';' and at least one more character follow the positive subpattern
HasNegativeText(s) ==
    /\ CharAt(s, PositiveText(s).end) = ";"
    /\ PositiveText(s).end < Len(s)

NegativeText(s) == SubpatternText(s, PositiveText(s).end + 1)

\* the characters of an affix text that stand outside its quoted literals
RECURSIVE UnquotedFrom(_, _)
UnquotedFrom(t, k) ==
    IF k > Len(t) THEN {}
    ELSE IF t[k] = "'" THEN UnquotedFrom(t, LiteralEndOf(t, k))
    ELSE {t[k]} \cup UnquotedFrom(t, k + 1)

Unquoted(t) == UnquotedFrom(t, 1)

Count(t, S) == Cardinality({k \in 1..Len(t) : t[k] \in S})

\* the positions of the grouping separators of an integer run
Separators(run) == {k \in 1..Len(run) : run[k] = ","}

LastOf(S) == CHOOSE k \in S : \A m \in S : m <= k

\* the first parse of the pattern has returned without an error
Parsed == round = 1 /\ pc = "returned" /\ ~U_FAILURE(status)

\* the first parse has returned from the translation of a non-empty pattern
Translated == Parsed /\ pattern # << >>

\* the second parse, of the serialized text, has returned
Reparsed == round = 2 /\ pc = "returned"

\* the fields the round trip compares
NormalizedFields(props) ==
    <<props.groupingUsed, props.groupingSize, props.secondaryGroupingSize,
      props.minimumIntegerDigits, props.maximumIntegerDigits,
      props.minimumFractionDigits, props.maximumFractionDigits,
      props.minimumSignificantDigits, props.maximumSignificantDigits,
      props.roundingIncrement, props.decimalSeparatorAlwaysShown,
      props.exponentSignAlwaysShown, props.minimumExponentDigits,
      props.formatWidth, props.padString, props.padPosition,
      props.magnitudeMultiplier,
      props.positivePrefixPattern, props.positiveSuffixPattern,
      props.negativePrefixPattern, props.negativeSuffixPattern>>

---------------------------------------------------------------------------
(* Properties *)

\* C1: round trip. Whenever a pattern has parsed and its properties have been
\* serialized, the serialized text parses without an error and translates to
\* properties equal to the first in every normalized field. Stated for the
\* policy that never ignores rounding.
C1_RoundTrip ==
    (Reparsed /\ ignoreRounding = IGNORE_ROUNDING_NEVER) =>
        /\ ~U_FAILURE(status)
        /\ NormalizedFields(properties) = NormalizedFields(trip[1].properties)

\* C2: idempotence of serialization. The text T serialized from the properties
\* of a parsed pattern parses without an error, and the properties parsed from
\* T serialize to T again. Stated for the policy that never ignores rounding.
C2_Idempotence ==
    ignoreRounding = IGNORE_ROUNDING_NEVER =>
        /\ Reparsed => ~U_FAILURE(status)
        /\ (round = 2 /\ pc = "serialized") => trip[2].text = trip[1].text

\* C3: localized round trip. With the symbols of a locale that swaps "." and
\* ",", every standard text whose conversion to the localized syntax succeeds
\* converts back, without an error, to exactly the text it was.
C3_LocalizedRoundTrip ==
    (conv.pc = "returned" /\ conv.pass = 2) =>
        /\ ~U_FAILURE(conv.status)
        /\ conv.result = conv.first

\* a text with a quoted literal has gone there and back
C3_Witness ==
    /\ conv.pc = "returned"
    /\ conv.pass = 2
    /\ conv.first = <<"'", ",", "'", ".", ",">>
    /\ conv.input = <<"'", ",", "'", ",", ".">>
    /\ conv.result = conv.first

\* C4 as stated: "#0", "0#" and "#,#00,0" are all rejected, the first two with
\* the unexpected-token error and the third with another error.
C4_AllRejected ==
    (round = 1 /\ pc = "returned") =>
        /\ pattern \in {<<"#", "0">>, <<"0", "#">>} => status = U_UNEXPECTED_TOKEN
        /\ pattern = <<"#", ",", "#", "0", "0", ",", "0">> =>
               (U_FAILURE(status) /\ status # U_UNEXPECTED_TOKEN)

\* C4, amended: "0#" is rejected with the unexpected-token error and leaves the
\* properties as they were; "#0" and "#,#00,0" parse without an error, the
\* latter to grouping sizes 1 and 3.
C4_Rejected ==
    (round = 1 /\ pc = "returned") =>
        /\ pattern = <<"0", "#">> =>
               (status = U_UNEXPECTED_TOKEN /\ properties = Clear)
        /\ pattern = <<"#", "0">> =>
               (status = U_ZERO_ERROR /\ properties.minimumIntegerDigits = 1)
        /\ pattern = <<"#", ",", "#", "0", "0", ",", "0">> =>
               /\ status = U_ZERO_ERROR
               /\ properties.groupingSize = 1
               /\ properties.secondaryGroupingSize = 3
               /\ properties.minimumIntegerDigits = 3

\* "0#" has been rejected where its '#' stands
C4_Witness ==
    /\ round = 1
    /\ pc = "returned"
    /\ pattern = <<"0", "#">>
    /\ status = U_UNEXPECTED_TOKEN
    /\ info.offset = 1
    /\ info.positive.integerNumerals = 1

\* the number of '#' of an integer run that stand after its last '@'
HashesAfterAtSigns(run) ==
    LET ats == {k \in 1..Len(run) : run[k] = "@"}
    IN  Cardinality({k \in 1..Len(run) : run[k] = "#" /\ k > LastOf(ats)})

\* C5: after every parse without an error, under every ignore-rounding policy,
\* the significant-digit fields and the fraction-digit fields are never both
\* set: when the positive integer run has an '@', the minimum significant
\* digits are the number of '@', the maximum that number plus the number of '#'
\* after the '@', and the fraction fields are unset; otherwise both
\* significant-digit fields are unset. "@@##" gives 2 and 4.
C5_SignificantOrFraction ==
    Parsed =>
        LET run == PositiveText(pattern).integer
            atSigns == Count(run, {"@"})
            significant == {properties.minimumSignificantDigits,
                            properties.maximumSignificantDigits}
            fraction == {properties.minimumFractionDigits,
                         properties.maximumFractionDigits}
        IN  /\ significant = {-1} \/ fraction = {-1}
            /\ IF atSigns > 0
               THEN /\ properties.minimumSignificantDigits = atSigns
                    /\ properties.maximumSignificantDigits =
                           atSigns + HashesAfterAtSigns(run)
                    /\ fraction = {-1}
               ELSE significant = {-1}
            /\ pattern = <<"@", "@", "#", "#">> =>
                   /\ properties.minimumSignificantDigits = 2
                   /\ properties.maximumSignificantDigits = 4
                   /\ fraction = {-1}

\* "@@##" has been translated under the policy that never ignores rounding
C5_Witness ==
    /\ Parsed
    /\ pattern = <<"@", "@", "#", "#">>
    /\ ignoreRounding = IGNORE_ROUNDING_NEVER
    /\ properties.minimumSignificantDigits = 2
    /\ properties.maximumSignificantDigits = 4
    /\ properties.minimumFractionDigits = -1

\* C6: no partial result on error. While a non-empty pattern is parsed into
\* existing properties, and after the parse has failed with whatever error, no
\* field of the properties has changed; the translation runs only after the
\* whole pattern has parsed. An empty pattern is no error and resets the
\* properties to their defaults.
C6_NoPartialResult ==
    round = 1 =>
        /\ (pattern # << >> /\ (pc \notin {"returned", "serialized"} \/ U_FAILURE(status)))
               => properties = Existing
        /\ (pattern = << >> /\ pc \in {"returned", "serialized"})
               => (properties = Clear /\ status = U_ZERO_ERROR)

\* a pattern has failed after its positive subpattern was read, and the
\* existing properties stand
C6_Witness ==
    /\ round = 1
    /\ pc = "returned"
    /\ pattern = <<"0", ";", "*">>
    /\ status = U_PATTERN_SYNTAX_ERROR
    /\ info.fHasNegativeSubpattern
    /\ properties = Existing

\* the text serialized first with the size field f of the properties at dosMax
ClampedText(f) ==
    PropertiesToPatternString([trip[1].properties EXCEPT ![f] = dosMax])

\* C7: serializer clamping. For each size field, the serializer returns for a
\* value beyond 100 the text it returns for 100, the other fields being the
\* same; with no rounding increment the text is no longer than 1300
\* characters plus twice the affix patterns and the pad string.
C7_Clamping ==
    (round = 1 /\ pc = "serialized") =>
        LET props == trip[1].properties
            text == trip[1].text
        IN  /\ \A f \in SizeFields : props[f] > dosMax => text = ClampedText(f)
            /\ isZero(props.roundingIncrement) =>
                   Len(text) <= 1300 + 2 * (length(props.positivePrefixPattern)
                                            + length(props.positiveSuffixPattern)
                                            + length(props.negativePrefixPattern)
                                            + length(props.negativeSuffixPattern)
                                            + length(props.padString))

\* properties with 102 minimum exponent digits and 101 maximum fraction digits
\* have been serialized to an exponent of 100 zeros
C7_Witness ==
    /\ round = 1
    /\ pc = "serialized"
    /\ trip[1].properties.minimumExponentDigits = dosMax + 2
    /\ trip[1].properties.maximumFractionDigits = dosMax + 1
    /\ SubSeq(trip[1].text, Len(trip[1].text) - dosMax - 1, Len(trip[1].text))
           = <<"E", "+">> \o Repeat("0", dosMax)

\* C8: a negative subpattern is recorded iff an unquoted ';' and at least one
\* more character follow the positive subpattern; the negative prefix and
\* suffix patterns are then the affix texts of that subpattern, possibly empty,
\* and are otherwise unset, which differs from empty. "#,##0;(#,##0)" gives
\* the negative prefix "(" and suffix ")".
C8_NegativeSubpattern ==
    Translated =>
        /\ info.fHasNegativeSubpattern = HasNegativeText(pattern)
        /\ IF HasNegativeText(pattern)
           THEN /\ properties.negativePrefixPattern = NegativeText(pattern).prefix
                /\ properties.negativeSuffixPattern = NegativeText(pattern).suffix
                /\ ~isBogus(properties.negativePrefixPattern)
                /\ ~isBogus(properties.negativeSuffixPattern)
           ELSE /\ isBogus(properties.negativePrefixPattern)
                /\ isBogus(properties.negativeSuffixPattern)
        /\ isBogus(<< >>) = FALSE
        /\ pattern = <<"#", ",", "#", "#", "0", ";", "(", "#", ",", "#", "#", "0", ")">> =>
               /\ properties.negativePrefixPattern = <<"(">>
               /\ properties.negativeSuffixPattern = <<")">>

\* "#,##0;(#,##0)" has been translated
C8_Witness ==
    /\ Translated
    /\ pattern = <<"#", ",", "#", "#", "0", ";", "(", "#", ",", "#", "#", "0", ")">>
    /\ info.fHasNegativeSubpattern
    /\ properties.negativePrefixPattern = <<"(">>
    /\ properties.negativeSuffixPattern = <<")">>

\* the number of placeholders of an integer run between positions lo and hi
PlaceholdersBetween(run, lo, hi) ==
    Cardinality({k \in 1..Len(run) : lo < k /\ k < hi /\ run[k] # ","})

MultiplierOf(affixes) ==
    LET unquoted == UNION {Unquoted(t) : t \in affixes}
    IN  IF "%" \in unquoted THEN 2 ELSE IF PerMille \in unquoted THEN 3 ELSE 0

\* C10 as stated: the multiplier is 2 when an unquoted percent sign stands in
\* an affix of the pattern, of either subpattern, otherwise 3 when a per-mille
\* sign does, otherwise 0.
C10_AnyAffix ==
    Translated =>
        properties.magnitudeMultiplier =
            MultiplierOf({PositiveText(pattern).prefix, PositiveText(pattern).suffix}
                         \cup IF HasNegativeText(pattern)
                              THEN {NegativeText(pattern).prefix,
                                    NegativeText(pattern).suffix}
                              ELSE {})

\* C10, amended: the multiplier is 2 when an unquoted percent sign stands in
\* the prefix or suffix of the positive subpattern, otherwise 3 when a
\* per-mille sign does, otherwise 0; a sign inside a quoted literal, as the pad
\* character, or only in the negative subpattern does not count. "0.0%",
\* translated with rounding not ignored, gives 2 and fraction digits 1 and 1.
C10_Multiplier ==
    Translated =>
        /\ properties.magnitudeMultiplier =
               MultiplierOf({PositiveText(pattern).prefix, PositiveText(pattern).suffix})
        /\ pattern = <<"0", ".", "0", "%">> =>
               /\ properties.magnitudeMultiplier = 2
               /\ ignoreRounding # IGNORE_ROUNDING_ALWAYS =>
                      /\ properties.minimumFractionDigits = 1
                      /\ properties.maximumFractionDigits = 1

\* "0.0%" has been translated to the multiplier 2
C10_Witness ==
    /\ Translated
    /\ pattern = <<"0", ".", "0", "%">>
    /\ ignoreRounding = IGNORE_ROUNDING_NEVER
    /\ info.positive.hasPercentSign
    /\ properties.positiveSuffixPattern = <<"%">>
    /\ properties.magnitudeMultiplier = 2

\* the pad positions in the order of the four places of a subpattern
PadPositions ==
    <<UNUM_PAD_BEFORE_PREFIX, UNUM_PAD_AFTER_PREFIX, UNUM_PAD_BEFORE_SUFFIX,
      UNUM_PAD_AFTER_SUFFIX>>

\* a literal without its quoting: '' is one quote
Unquote(lit) ==
    IF lit = <<"'", "'">> THEN <<"'">>
    ELSE IF CharAt(lit, 1) = "'" THEN SubSeq(lit, 2, Len(lit) - 1)
    ELSE lit

\* the pairs of adjacent quotes of a text, taken from the left
RECURSIVE QuotePairsFrom(_, _)
QuotePairsFrom(t, k) ==
    IF k >= Len(t) THEN 0
    ELSE IF t[k] = "'" /\ t[k + 1] = "'" THEN 1 + QuotePairsFrom(t, k + 2)
    ELSE QuotePairsFrom(t, k + 1)

\* the length of an affix text without its quoting
UnescapedLength(t) == Len(t) - Count(t, {"'"}) + QuotePairsFrom(t, 1)

\* C11: padding translation. When the positive subpattern declares a pad
\* specifier, the pad position is the place where the '*' stands, the pad
\* string is the pad literal without its quoting, and the format width is the
\* width of the positive numeric body plus the unescaped lengths of the
\* positive prefix and suffix; without a pad specifier the width, the pad
\* string and the pad position are unset. "*x#,##0" gives "x", before the
\* prefix, width 5.
C11_Padding ==
    Translated =>
        LET t == PositiveText(pattern)
            declared == {n \in 1..4 : t.pads[n] # << >>}
            place == CHOOSE n \in declared : TRUE
        IN  /\ Cardinality(declared) <= 1
            /\ IF declared # {}
               THEN /\ properties.padPosition = PadPositions[place]
                    /\ properties.padString = Unquote(Tail(t.pads[place]))
                    /\ properties.formatWidth =
                           Len(t.body) + UnescapedLength(t.prefix)
                               + UnescapedLength(t.suffix)
               ELSE /\ properties.formatWidth = -1
                    /\ isBogus(properties.padString)
                    /\ properties.padPosition = Null
            /\ pattern = <<"*", "x", "#", ",", "#", "#", "0">> =>
                   /\ properties.padString = <<"x">>
                   /\ properties.padPosition = UNUM_PAD_BEFORE_PREFIX
                   /\ properties.formatWidth = 5

\* a pattern with a prefix, an escaped quote as the pad literal after it and
\* one digit has been translated to the width 2 and the pad string of one quote
C11_Witness ==
    /\ Translated
    /\ pattern = <<"x", "*", "'", "'", "0">>
    /\ properties.padPosition = UNUM_PAD_AFTER_PREFIX
    /\ properties.padString = <<"'">>
    /\ properties.formatWidth = 2

\* the first token of the text s from position k on that has no end: an open
\* quote ("quote") or a '*' without a pad literal ("star"), with the offset
\* the parser has when it has met it and the number of pad specifiers that
\* precede it in its subpattern; "whole" when every token has its end
RECURSIVE TokensFrom(_, _, _)
TokensFrom(s, k, stars) ==
    IF k > Len(s) THEN [kind |-> "whole", at |-> Len(s), stars |-> stars]
    ELSE IF s[k] = "*" /\ k = Len(s) THEN [kind |-> "star", at |-> k - 1, stars |-> stars]
    ELSE LET q == IF s[k] = "*" THEN k + 1 ELSE k
             seen == IF s[k] = "*" THEN stars + 1 ELSE IF s[k] = ";" THEN 0 ELSE stars
         IN  IF s[q] = "'" /\ \A j \in (q + 1)..Len(s) : s[j] # "'"
             THEN [kind |-> "quote", at |-> q, stars |-> stars]
             ELSE TokensFrom(s, LiteralEndOf(s, q), seen)

\* the error was reported by the numeric body: consumeFormat and
\* consumeExponent are the fourth and fifth step of consumeSubpattern
BodyFailed == U_FAILURE(status) /\ stage \in {5, 6}

\* the parser has met the token t: it has read up to it and the numeric body
\* before it is not in error
Met(t) == t.kind # "whole" /\ info.offset >= t.at /\ ~BodyFailed

GrammarEnd(s) ==
    LET p == PositiveText(s).end
    IN  IF HasNegativeText(s) THEN NegativeText(s).end
        ELSE IF CharAt(s, p) = ";" THEN p + 1
        ELSE p

\* C13: trailing content. A parse succeeds only if the whole text has been
\* consumed; when a character remains after the positive subpattern and the
\* optional ';' and negative subpattern, the parse fails, and it fails with
\* the unquoted-special-character error at that character when the parser has
\* read the subpatterns to their end. "0;0;" (a second ';') and "0x0" (a
\* structural character after the suffix) fail so.
C13_TrailingContent ==
    (round = 1 /\ pc = "returned" /\ pattern # << >>) =>
        LET rest == GrammarEnd(pattern)
        IN  /\ ~U_FAILURE(status) => info.offset = Len(pattern)
            /\ rest <= Len(pattern) => U_FAILURE(status)
            /\ (rest <= Len(pattern) /\ stage = 9 /\ info.offset = rest - 1) =>
                   status = U_UNQUOTED_SPECIAL
            /\ status = U_UNQUOTED_SPECIAL =>
                   (rest <= Len(pattern) /\ info.offset = rest - 1)
            /\ pattern \in {<<"0", ";", "0", ";">>, <<"0", "x", "0">>} =>
                   status = U_UNQUOTED_SPECIAL

\* the parse of a pattern with a second ';' has returned the
\* unquoted-special-character error at that ';'
C13_Witness ==
    /\ round = 1
    /\ pc = "returned"
    /\ pattern = <<"0", ";", "0", ";">>
    /\ info.offset = 3
    /\ status = U_UNQUOTED_SPECIAL

\* the subpattern text t has a pad specifier at two or more of its four places
TwoPads(t) == Cardinality({n \in 1..4 : t.pads[n] # << >>}) >= 2

\* C14: at most one pad specifier per subpattern. When a subpattern has a '*'
\* at a second one of its four pad places the parse fails, with the
\* multiple-pad-specifiers error unless the numeric body before that '*' is
\* itself in error; that error is reported for no other pattern; and the two
\* subpatterns are counted separately: "*x;*x" parses with a pad specifier in
\* each.
C14_OnePadSpecifier ==
    (round = 1 /\ pc = "returned") =>
        LET multiple == \/ TwoPads(PositiveText(pattern))
                        \/ HasNegativeText(pattern) /\ TwoPads(NegativeText(pattern))
        IN  /\ multiple => U_FAILURE(status)
            /\ (multiple /\ ~BodyFailed) => status = U_MULTIPLE_PAD_SPECIFIERS
            /\ status = U_MULTIPLE_PAD_SPECIFIERS => multiple
            /\ pattern = <<"*", "x", ";", "*", "x">> =>
                   /\ status = U_ZERO_ERROR
                   /\ info.positive.hasPadding
                   /\ info.negative.hasPadding

\* a pattern with a pad specifier before its prefix and a second one before
\* its suffix has been rejected at the second '*'
C14_Witness ==
    /\ round = 1
    /\ pc = "returned"
    /\ pattern = <<"*", "x", "0", "*", "x">>
    /\ info.offset = 3
    /\ status = U_MULTIPLE_PAD_SPECIFIERS

\* the subpattern text t has a grouping separator in its integer run and an
\* exponent marker directly after its numeric body
GroupedExponent(t) == Count(t.integer, {","}) > 0 /\ t.exponent # << >>

RECURSIVE OutOfOrderFrom(_, _, _)
OutOfOrderFrom(run, k, phase) ==
    IF k > Len(run) THEN 0
    ELSE LET c == run[k]
             after == CASE c = "," -> phase
                        [] c = "#" -> IF phase = "lead" THEN "lead"
                                      ELSE IF phase = "digits" THEN "bad"
                                      ELSE "trail"
                        [] c = "@" -> IF phase \in {"lead", "at"} THEN "at" ELSE "bad"
                        [] OTHER -> IF phase \in {"lead", "digits"} THEN "digits" ELSE "bad"
         IN  IF after = "bad" THEN k ELSE OutOfOrderFrom(run, k + 1, after)

OutOfOrder(t) == OutOfOrderFrom(t.integer, 1, "lead")

\* C20: token order in the integer run. A pattern parses only if the integer
\* run of each subpattern is, separators apart, zero or more '#', then digits
\* or '@'s followed by zero or more '#'; when the parser has come to the run,
\* the first token out of that order ('#' or '@' after a digit, '@' after a '#'
\* that followed '@', a digit after '@') stops the parse there with the
\* unexpected-token error; and no parsed subpattern has both digits and '@'.
C20_TokenOrder ==
    (round = 1 /\ pc = "returned") =>
        LET pos == PositiveText(pattern)
            neg == NegativeText(pattern)
        IN  /\ ~U_FAILURE(status) =>
                   /\ OutOfOrder(pos) = 0
                   /\ HasNegativeText(pattern) => OutOfOrder(neg) = 0
                   /\ \A sub \in {info.positive, info.negative} :
                          ~(sub.integerNumerals > 0 /\ sub.integerAtSigns > 0)
            /\ (OutOfOrder(pos) > 0 /\ stage >= 5) =>
                   /\ status = U_UNEXPECTED_TOKEN
                   /\ info.offset = pos.start + OutOfOrder(pos) - 2
            /\ (/\ HasNegativeText(pattern)
                /\ OutOfOrder(neg) > 0
                /\ info.currentSubpattern = "negative"
                /\ stage >= 5) =>
                   /\ status = U_UNEXPECTED_TOKEN
                   /\ info.offset = neg.start + OutOfOrder(neg) - 2

\* the parse of a run with a second '@' after a '#' that followed '@' has
\* stopped at that '@' with the unexpected-token error
C20_Witness ==
    /\ round = 1
    /\ pc = "returned"
    /\ pattern = <<"#", "@", "#", "@">>
    /\ info.offset = 3
    /\ status = U_UNEXPECTED_TOKEN

\* C16: convertLocalized reports the unterminated-quote error exactly when
\* its input has an odd number of quote characters, that is when the scan ends
\* in state 1, 2 or 5; with an even number it succeeds, ends in state 0 and
\* has closed in its result every quote it has opened there.
C16_QuoteParity ==
    conv.pc = "returned" =>
        LET odd == Count(conv.input, {"'"}) % 2 = 1
        IN  /\ U_FAILURE(conv.status) <=> odd
            /\ odd => (conv.status = U_PATTERN_SYNTAX_ERROR /\ conv.state \in {1, 2, 5})
            /\ ~odd => (conv.state = 0 /\ Count(conv.result, {"'"}) % 2 = 0)

\* a letter that the locale uses as a symbol has been quoted by the converter,
\* a quote of the input has followed it, and the call has returned the error
C16_Witness ==
    /\ conv.pc = "returned"
    /\ conv.symbols = Localized(3, <<"x">>)
    /\ conv.toLocalized
    /\ conv.input = <<"x", "'">>
    /\ conv.state = 5
    /\ conv.status = U_PATTERN_SYNTAX_ERROR

\* C17: the scan of convertLocalized is bounded. The offset is greater after
\* every iteration of the scan than before it, for every input, every symbol
\* table and both directions.
C17_OffsetAdvances ==
    [][(conv.pc = "scan" /\ conv'.pc = "scan") => conv'.offset > conv.offset]_vars

\* the characters that stand unquoted in the prefix or the suffix of the
\* subpattern text t
Declared(t) == Unquoted(t.prefix) \cup Unquoted(t.suffix)

\* plus replaces minus, read off the pattern text and the arguments of the call
PlusForMinus ==
    /\ rendered.signum # -1
    /\ \/ rendered.signDisplay \in {"UNUM_SIGN_ALWAYS", "UNUM_SIGN_ACCOUNTING_ALWAYS"}
       \/ /\ rendered.signum = 1
          /\ rendered.signDisplay \in
                 {"UNUM_SIGN_EXCEPT_ZERO", "UNUM_SIGN_ACCOUNTING_EXCEPT_ZERO"}
    /\ "+" \notin Declared(PositiveText(pattern))

\* the affix of the negative subpattern is the one to render
FromNegative ==
    /\ HasNegativeText(pattern)
    /\ \/ rendered.signum = -1
       \/ "-" \in Declared(NegativeText(pattern)) /\ PlusForMinus

\* the text of the affix to render
Fragment ==
    LET t == IF FromNegative THEN NegativeText(pattern) ELSE PositiveText(pattern)
    IN  IF rendered.isPrefix THEN t.prefix ELSE t.suffix

\* a character of the affix as it is rendered
Rendering(c) ==
    IF PlusForMinus /\ c = "-" THEN "+"
    ELSE IF rendered.perMilleReplacesPercent /\ c = "%" THEN PerMille
    ELSE c

\* C18: affix selection. The rendered text is that of the negative
\* subpattern's affix iff a negative subpattern exists and the sign is
\* negative or the negative subpattern declares '-' and plus replaces minus;
\* plus replaces minus iff the sign is not negative, the policy is always or
\* accounting-always, or except-zero or accounting-except-zero with a positive
\* sign, and the positive subpattern declares no '+'; otherwise the positive
\* subpattern's affix is rendered; and a '-' of the text is rendered as '+'
\* exactly when plus replaces minus.
C18_AffixSelection ==
    rendered.called =>
        LET out == rendered.output
            lead == Len(out) - Len(Fragment)
        IN  /\ lead \in {0, 1}
            /\ \A k \in 1..Len(Fragment) : out[lead + k] = Rendering(Fragment[k])
            /\ PlusForMinus => \A k \in 1..Len(out) : out[k] # "-"
            /\ ~PlusForMinus =>
                   \A k \in 1..Len(Fragment) : (out[lead + k] = "-" <=> Fragment[k] = "-")

\* the prefix of the negative subpattern, which declares '-', has been
\* rendered for a positive number under the policy that always shows the sign
C18_Witness ==
    /\ rendered.called
    /\ pattern = <<"0", ";", "-", "0">>
    /\ rendered.isPrefix
    /\ rendered.signum = 1
    /\ rendered.signDisplay = "UNUM_SIGN_ALWAYS"
    /\ ~rendered.perMilleReplacesPercent
    /\ rendered.output = <<"+">>

\* C19: sign synthesis. A sign that is not in the affix text is prepended
\* only to a prefix and only when the negative subpattern's affix is not
\* rendered; then for a negative sign iff the policy is not "never" and for a
\* zero or positive sign iff plus replaces minus. The output is one longer
\* than the affix text when a sign is prepended and as long as it otherwise; a
\* suffix never gets a sign prepended.
C19_SignSynthesis ==
    rendered.called =>
        LET out == rendered.output
            prepended == Len(out) = Len(Fragment) + 1
            wanted == /\ rendered.isPrefix
                      /\ ~FromNegative
                      /\ IF rendered.signum = -1
                         THEN rendered.signDisplay # "UNUM_SIGN_NEVER"
                         ELSE PlusForMinus
        IN  /\ Len(out) = Len(Fragment) + (IF wanted THEN 1 ELSE 0)
            /\ prepended <=> wanted
            /\ prepended => out[1] = (IF PlusForMinus THEN "+" ELSE "-")
            /\ ~rendered.isPrefix => Len(out) = Len(Fragment)

\* a minus sign has been prepended to the prefix of a pattern without a
\* negative subpattern for a negative number
C19_Witness ==
    /\ rendered.called
    /\ pattern = <<"%", "0">>
    /\ rendered.isPrefix
    /\ rendered.signum = -1
    /\ rendered.signDisplay = "UNUM_SIGN_AUTO"
    /\ ~rendered.perMilleReplacesPercent
    /\ rendered.output = <<"-", "%">>

\* the integer run has a group of width zero: it ends with a grouping
\* separator or has two grouping separators next to each other
ZeroWidthGroup(run) ==
    \/ Len(run) > 0 /\ run[Len(run)] = ","
    \/ \E k \in 1..(Len(run) - 1) : run[k] = "," /\ run[k + 1] = ","

\* C21: grouping validity. No pattern parses whose integer run, in either
\* subpattern, ends with a grouping separator or has two adjacent grouping
\* separators, wherever in the run they stand.
C21_ZeroWidthRejected ==
    (round = 1 /\ pc = "returned") =>
        ((\/ ZeroWidthGroup(PositiveText(pattern).integer)
          \/ HasNegativeText(pattern) /\ ZeroWidthGroup(NegativeText(pattern).integer))
             => U_FAILURE(status))

\* the placeholders and the fixed digits of a run of the pattern text
Places(run) == Count(run, {"#", "@"} \cup DigitChars)

Fixed(run) == Count(run, DigitChars)

\* the default minimum digits that the text t of a subpattern gives
DefaultMinimum(t) ==
    IF Places(t.integer) = 0 /\ Places(t.fraction) > 0
    THEN [integer |-> 0, fraction |-> uprv_max(1, Fixed(t.fraction))]
    ELSE IF Fixed(t.integer) = 0 /\ Fixed(t.fraction) = 0
    THEN [integer |-> 1, fraction |-> 0]
    ELSE [integer |-> Fixed(t.integer), fraction |-> Fixed(t.fraction)]

C23_Scientific ==
    Translated =>
        LET t == PositiveText(pattern)
            zeros == Count(t.exponent, {"0"})
        IN  IF zeros > 0
            THEN /\ properties.minimumExponentDigits = zeros
                 /\ properties.exponentSignAlwaysShown = (CharAt(t.exponent, 2) = "+")
                 /\ IF Count(t.integer, {"@"}) = 0
                    THEN /\ properties.minimumIntegerDigits = Fixed(t.integer)
                         /\ properties.maximumIntegerDigits = Places(t.integer)
                         /\ properties.minimumIntegerDigits <= properties.maximumIntegerDigits
                    ELSE /\ properties.minimumIntegerDigits = 1
                         /\ properties.maximumIntegerDigits = -1
            ELSE /\ properties.minimumExponentDigits = -1
                 /\ properties.exponentSignAlwaysShown = FALSE
                 /\ properties.maximumIntegerDigits = -1

\* an engineering-notation pattern with a signed exponent has been translated
C23_Witness ==
    /\ Translated
    /\ pattern = <<"#", "0", "E", "+", "0">>
    /\ properties.minimumExponentDigits = 1
    /\ properties.exponentSignAlwaysShown
    /\ properties.minimumIntegerDigits = 1
    /\ properties.maximumIntegerDigits = 2

\* the fraction fields and the rounding increment of the translation when the
\* currency sign is looked for in the affix texts given
RoundingPolicy(affixes) ==
    LET t == PositiveText(pattern)
        currency == Currency \in UNION {Unquoted(a) : a \in affixes}
        ignored == \/ ignoreRounding = IGNORE_ROUNDING_ALWAYS
                   \/ ignoreRounding = IGNORE_ROUNDING_IF_CURRENCY /\ currency
        allZero == Count(t.integer, DigitChars \ {"0"}) = 0
                   /\ Count(t.fraction, DigitChars \ {"0"}) = 0
    IN  IF Count(t.integer, {"@"}) > 0
        THEN /\ properties.minimumFractionDigits = -1
             /\ properties.maximumFractionDigits = -1
             /\ properties.roundingIncrement = ZeroQuantity
             /\ properties.minimumSignificantDigits = Count(t.integer, {"@"})
             /\ properties.maximumSignificantDigits =
                    Count(t.integer, {"@"}) + HashesAfterAtSigns(t.integer)
        ELSE IF ignored
        THEN /\ properties.minimumFractionDigits = -1
             /\ properties.maximumFractionDigits = -1
             /\ properties.roundingIncrement = ZeroQuantity
        ELSE /\ properties.minimumFractionDigits = DefaultMinimum(t).fraction
             /\ properties.maximumFractionDigits = Places(t.fraction)
             /\ IF allZero THEN properties.roundingIncrement = ZeroQuantity
                ELSE /\ properties.roundingIncrement # ZeroQuantity
                     /\ properties.roundingIncrement = toDouble(info.positive.rounding)

MatchLengths(c) ==
    {Len(TablePair(c.symbols, c.toLocalized, i)[1]) : i \in
        {j \in 1..LEN :
            LET find == TablePair(c.symbols, c.toLocalized, j)[1]
            IN  /\ c.offset + Len(find) <= Len(c.input)
                /\ SubSeq(c.input, c.offset + 1, c.offset + Len(find)) = find}}

\* C25: longest match. At every position outside a quoted sequence where
\* symbols of the table match the input, the iteration of the scan consumes
\* the longest of them, whatever the order of the table (said of tables
\* without an empty symbol).
C25_LongestMatch ==
    [][(/\ conv.pc = "scan"
        /\ conv'.pc = "scan"
        /\ \A i \in 1..LEN : conv.symbols[i] # << >>
        /\ conv.offset < Len(conv.input)
        /\ conv.state \in {0, 3, 4}
        /\ conv.input[conv.offset + 1] # "'"
        /\ MatchLengths(conv) # {})
           => \A n \in MatchLengths(conv) : conv'.offset - conv.offset >= n]_vars


\* the affix text that stands for an affix pattern and a literal affix: the
\* pattern when it is set, the escaped literal otherwise
AffixText(affixPattern, literal) ==
    IF ~isBogus(affixPattern) THEN affixPattern ELSE escape(literal)

\* C26: serialized affixes. Each of the four affixes of the serialized text
\* is the affix pattern when that pattern is set, and the escaped literal
\* affix only when the pattern is unset; the two are never both written
\* (read off the texts that have no pad specifier).
C26_SerializedAffixes ==
    \A k \in 1..Len(trip) :
        LET props == trip[k].properties
            text == trip[k].text
        IN  props.padPosition = Null =>
                /\ PositiveText(text).prefix
                        = AffixText(props.positivePrefixPattern, props.positivePrefix)
                /\ PositiveText(text).suffix
                        = AffixText(props.positiveSuffixPattern, props.positiveSuffix)
                /\ HasNegativeText(text) =>
                        /\ NegativeText(text).prefix
                                = AffixText(props.negativePrefixPattern,
                                            props.negativePrefix)
                        /\ NegativeText(text).suffix
                                = AffixText(props.negativeSuffixPattern,
                                            props.negativeSuffix)

\* the properties whose negative subpattern is not written: no literal
\* negative affix is set, and the negative affix patterns are both unset or
\* are "-" and an empty or unset suffix
DefaultNegative(props) ==
    /\ props.negativePrefix = Bogus
    /\ props.negativeSuffix = Bogus
    /\ \/ props.negativePrefixPattern = Bogus /\ props.negativeSuffixPattern = Bogus
       \/ /\ props.negativePrefixPattern = <<"-">>
          /\ props.negativeSuffixPattern \in {Bogus, << >>}

\* the positions of the character ';' in a text: with affixes and pad strings
\* that hold none, the places where a negative subpattern begins
Semicolons(text) == {n \in 1..Len(text) : text[n] = ";"}

\* C27: negative subpattern emission. The serialized text has no ';'
\* exactly when the negative affixes are the default ones; in every other
\* case, a negative prefix pattern set to the empty string included, it has
\* one ';' that is followed by the negative part, which begins with the
\* negative prefix and ends with the negative suffix.
C27_NegativeEmission ==
    \A k \in 1..Len(trip) :
        LET props == trip[k].properties
            text == trip[k].text
            before == chars(props.negativePrefixPattern) \o escape(props.negativePrefix)
            after == chars(props.negativeSuffixPattern) \o escape(props.negativeSuffix)
        IN  IF DefaultNegative(props)
            THEN Semicolons(text) = {}
            ELSE \E n \in 1..Len(text) :
                    /\ Semicolons(text) = {n}
                    /\ n > 1
                    /\ Len(text) - n > Len(before) + Len(after)
                    /\ SubSeq(text, n + 1, n + Len(before)) = before
                    /\ SubSeq(text, Len(text) - Len(after) + 1, Len(text)) = after

C27_Witness ==
    /\ Len(trip) >= 1
    /\ trip[1].properties.negativePrefixPattern = << >>
    /\ trip[1].properties.negativeSuffixPattern = Bogus
    /\ trip[1].properties.negativePrefix = Bogus
    /\ trip[1].properties.negativeSuffix = Bogus
    /\ trip[1].properties.positiveSuffixPattern = <<"%">>
    /\ trip[1].properties.formatWidth = -1
    /\ trip[1].properties.groupingSize = -1
    /\ trip[1].text = <<"0", "%", ";", "0">>


\* the characters of a numeric skeleton
SkeletonSymbols == RunSymbols \cup {".", "E", "+"}

\* the numeric skeleton of the positive subpattern: the digits, separators
\* and exponent written for the properties, after the '#' inserted to reach
\* the format width
Skeleton(props) ==
    LET written == chars(props.positivePrefixPattern) \o escape(props.positivePrefix)
                   \o SerializedNumber(props) \o SerializedExponent(props)
                   \o chars(props.positiveSuffixPattern) \o escape(props.positiveSuffix)
        width == uprv_min(props.formatWidth, dosMax)
        missing == IF width # -1 /\ props.padPosition # Null
                   THEN uprv_max(width - Len(written), 0)
                   ELSE 0
    IN  Repeat("#", missing) \o SerializedNumber(props) \o SerializedExponent(props)

\* C28: copied skeleton. Whenever the serialized text has a negative
\* subpattern, the text between the negative prefix and the negative suffix
\* is the numeric skeleton of the positive subpattern, the '#' inserted to
\* reach the format width included; it holds no character other than those
\* of a skeleton (no pad specifier, no character of the positive affixes),
\* for every pad position and pad string.
C28_CopiedSkeleton ==
    \A k \in 1..Len(trip) :
        LET props == trip[k].properties
            text == trip[k].text
            before == chars(props.negativePrefixPattern) \o escape(props.negativePrefix)
            after == chars(props.negativeSuffixPattern) \o escape(props.negativeSuffix)
            start == Len(text) - Len(after) - Len(Skeleton(props))
        IN  ~DefaultNegative(props) =>
                /\ start - Len(before) >= 1
                /\ text[start - Len(before)] = ";"
                /\ SubSeq(text, start - Len(before) + 1, start) = before
                /\ SubSeq(text, start + 1, start + Len(Skeleton(props))) = Skeleton(props)
                /\ \A n \in (start + 1)..(start + Len(Skeleton(props))) :
                        text[n] \in SkeletonSymbols
                /\ start - Len(before) - 1
                        = Len(ResolvePadding(props, SerializedPositive(props)).sb)

C28_Witness ==
    /\ Len(trip) >= 1
    /\ trip[1].properties.padPosition = UNUM_PAD_AFTER_PREFIX
    /\ trip[1].properties.padString = <<"x", "'">>
    /\ trip[1].properties.positivePrefixPattern = <<"x">>
    /\ trip[1].properties.negativePrefixPattern = <<"-">>
    /\ trip[1].properties.negativeSuffixPattern = <<"x">>
    /\ trip[1].text = <<"x", "*", "'", "x", "'", "'", "'", "#", "#", "#", "#", "#",
                        "#", "0", ";", "-", "#", "#", "#", "#", "#", "#", "0", "x">>


\* the cursor stands inside the text or at its end
CursorInRange == info.offset >= 0 /\ info.offset <= Len(pattern)

\* a step of a parse: the cursor does not go back, and a step of
\* consumeLiteral that does not return, or that reads an unquoted character
\* or a closing quote, moves the cursor by one character
CursorStep ==
    pc # "serialized" =>
        /\ info'.offset >= info.offset
        /\ (pc \in {"consumeLiteral", "consumeLiteralQuoted"} /\ ~U_FAILURE(status'))
                => info'.offset = info.offset + 1

\* C29: parser cursor. In every state of a parse the cursor is at least 0
\* and at most the length of the pattern text, and no step moves it back (an
\* advance at the end of the text would put it beyond the length); every
\* step of the scan of a literal consumes one character; and every parse
\* that is entered returns, texts with unterminated quotes included.
C29_ParserCursor ==
    /\ []CursorInRange
    /\ [][CursorStep]_vars
    /\ (pc = "parseToExistingPropertiesImpl") ~> (pc = "returned")

\* the parse of a text with a quote that is never closed has returned, the
\* cursor at the end of the text
C29_Witness ==
    /\ round = 1
    /\ pc = "returned"
    /\ pattern = <<"0", "'", "x", "x", "x">>
    /\ info.offset = 5
    /\ status = U_PATTERN_SYNTAX_ERROR


---------------------------------------------------------------------------
(* Two calls of the parser under one policy: on a pattern with a negative  *)
(* subpattern, then on its positive subpattern alone.                      *)

\* the positive subpatterns
PositiveTexts ==
    {<<"0">>, <<"#">>, <<"@", "@", "#">>, <<"0", ".", "5">>, <<"#", ".">>,
     <<"#", ",", "#", "#", "0", ".", "0", "#">>, <<"#", ",", "#", "0", ",", "0">>,
     <<"0", "E", "+", "0">>, <<"#", "0", "E", "0">>,
     <<"*", "x", "0">>, <<"x", "*", "'", "'", "0">>, <<"0", "*", "x", "%">>,
     <<"0", "%", "*", "x">>, <<Currency, "0", ".", "0">>, <<"0", PerMille>>,
     <<"'", "%", "'", "0">>, <<"-", "0", "x">>, <<"+", "0">>}

\* the characters of the negative subpatterns
NegativeAlphabet == {"0", "#", ",", "@", "E", "*", "%", Currency}

InitPositive ==
    /\ \E p \in PositiveTexts, n \in TextsUpTo(NegativeAlphabet, MaxNegative),
          policy \in {IGNORE_ROUNDING_NEVER, IGNORE_ROUNDING_IF_CURRENCY} :
           Start(p \o <<";">> \o n, policy, Clear)
    /\ conv = IdleConv
    /\ rendered = NotRendered

\* PatternParser::parseToProperties on the positive subpattern of the pattern
\* just parsed, the properties of the first call kept for the comparison
parseToPropertiesOfPositive ==
    /\ pc = "returned"
    /\ round = 1
    /\ ~U_FAILURE(status)
    /\ trip' = Append(trip, [properties |-> properties,
                             text |-> SubSeq(pattern, 1, PositiveText(pattern).end - 1)])
    /\ pattern' = SubSeq(pattern, 1, PositiveText(pattern).end - 1)
    /\ properties' = Clear
    /\ info' = ParsedPatternInfo
    /\ status' = U_ZERO_ERROR
    /\ pc' = "parseToExistingPropertiesImpl"
    /\ stage' = 0
    /\ ret' = "none"
    /\ zeroCounter' = 0
    /\ round' = round + 1
    /\ UNCHANGED <<ignoreRounding, conv, rendered>>

NextPositive ==
    \/ ParseStep
    \/ parseToPropertiesOfPositive

SpecPositive == InitPositive /\ [][NextPositive]_vars

\* the properties without the two negative affix patterns
BesidesNegativeAffixes(props) ==
    [props EXCEPT !.negativePrefixPattern = Bogus, !.negativeSuffixPattern = Bogus]

=============================================================================
